---- MODULE Spec2Model ----
(***************************************************************************)
(* Request-orchestration engine of the Gemini caching proxy (src/main.go): *)
(* the four protocol adapters (native /chat, OpenAI buffered, OpenAI       *)
(* streaming, provider passthrough), the tool loop, the tool executor's    *)
(* path confinement, the session store and the cost accumulator.           *)
(*                                                                         *)
(* Go strings whose structure the code inspects (model names, paths,       *)
(* response texts) are sequences of atoms: an atom is an indivisible       *)
(* piece of the string, chosen so that no atom is a prefix of another.     *)
(* strings.HasPrefix, strings.Contains, strings.TrimSuffix and             *)
(* strings.TrimSpace are then computed on the sequences.  Strings the code *)
(* only compares with "" or copies (session ids, cache ids, messages) are  *)
(* TLA+ strings.                                                           *)
(***************************************************************************)
EXTENDS Integers, Sequences, FiniteSets, TLC

(***************************************************************************)
(* Bounds of the model.                                                    *)
(***************************************************************************)
\* function-call responses the upstream may give within one turn
MaxRounds == 2
\* function calls carried by one upstream response
MaxCalls == 2
\* requests served in a behaviour of Spec
MaxTurns == 1
\* requests served in a behaviour of SpecSeq
SeqTurns == 2
\* requests served in a behaviour of SpecConc
ConcTurns == 2
\* segments of a client-supplied tool path
MaxSegs == 3
\* requests and resets served in a behaviour of SpecRace
RaceTurns == 3
\* requests and resets served in a behaviour of SpecMix
MixTurns == 4

(***************************************************************************)
(* Go's strings package on sequences of atoms.                             *)
(***************************************************************************)
HasPrefix(s, prefix) ==
    /\ Len(prefix) <= Len(s)
    /\ SubSeq(s, 1, Len(prefix)) = prefix

HasSuffix(s, suffix) ==
    /\ Len(suffix) <= Len(s)
    /\ SubSeq(s, Len(s) - Len(suffix) + 1, Len(s)) = suffix

TrimSuffix(s, suffix) ==
    IF HasSuffix(s, suffix) THEN SubSeq(s, 1, Len(s) - Len(suffix)) ELSE s

Contains(s, substr) ==
    \E i \in 0..(Len(s) - Len(substr)) : SubSeq(s, i + 1, i + Len(substr)) = substr

RECURSIVE TrimLeft(_)
TrimLeft(s) ==
    IF s # <<>> /\ Head(s) = " " THEN TrimLeft(Tail(s)) ELSE s

RECURSIVE TrimRight(_)
TrimRight(s) ==
    IF s # <<>> /\ s[Len(s)] = " " THEN TrimRight(SubSeq(s, 1, Len(s) - 1)) ELSE s

TrimSpace(s) == TrimRight(TrimLeft(s))

(***************************************************************************)
(* Model names.                                                            *)
(***************************************************************************)
Flash == <<"gemini", "-", "2.0", "-", "flash">>
Flash001 == Flash \o <<"-", "001">>
FlashExp == Flash \o <<"-", "exp">>
FlashLite == Flash \o <<"-", "lite">>
FlashImage == Flash \o <<"-", "preview", "-", "image", "-", "generation">>
Flash8b15 == <<"gemini", "-", "1.5", "-", "flash", "-", "8b">>
Pro15 == <<"gemini", "-", "1.5", "-", "pro">>
Gpt4 == <<"gpt", "-", "4">>
NoModel == <<>>

DefaultModel == Flash

(***************************************************************************)
(* Cost Accumulator.  Prices are per million tokens, in units of 1e-4 USD; *)
(* a cost is tokens * price, in units of 1e-10 USD.                        *)
(***************************************************************************)
modelCosts ==
    (<<"gemini", "-", "1.5", "-", "flash">> :> [In |-> 750, Out |-> 3000]) @@
    (Flash8b15 :> [In |-> 375, Out |-> 1500]) @@
    (Pro15 :> [In |-> 12500, Out |-> 50000]) @@
    (Flash :> [In |-> 1000, Out |-> 4000]) @@
    (FlashExp :> [In |-> 0, Out |-> 0]) @@
    (<<"gemini", "-", "2.0", "-", "flash", "-", "lite", "-", "preview", "-", "02", "-", "05">>
        :> [In |-> 750, Out |-> 3000]) @@
    (<<"gemini", "-", "exp", "-", "1206">> :> [In |-> 0, Out |-> 0]) @@
    (<<"gemini", "-", "2.0", "-", "pro", "-", "exp", "-", "02", "-", "05">>
        :> [In |-> 0, Out |-> 0])

NoKey == <<"<no key>">>
NoUsage == [nil |-> TRUE]

\* The keys the range over the price map can stop at: Go visits a map in an
\* unspecified order and the loop breaks at the first key that matches.
MatchingKeys(modelName) ==
    {modelKey \in DOMAIN modelCosts : modelName = modelKey \/ HasPrefix(modelName, modelKey)}

RangeStops(modelName) ==
    IF MatchingKeys(modelName) = {} THEN {NoKey} ELSE MatchingKeys(modelName)

\* a cost that leaves the candidate tokens out
calculateCost_promptOnly(modelName, resp, modelKey) ==
    IF modelKey = NoKey \/ resp.UsageMetadata = NoUsage THEN 0
    ELSE resp.UsageMetadata.PromptTokenCount * modelCosts[modelKey].In

\* modelKey: the key the range stopped at (NoKey: no key matched)
calculateCost(modelName, resp, modelKey) ==
    LET found == modelKey # NoKey
        rates == IF found THEN modelCosts[modelKey] ELSE [In |-> 0, Out |-> 0]
    IN  IF ~found \/ (rates.In = 0 /\ rates.Out = 0) THEN 0
        ELSE IF resp.UsageMetadata = NoUsage THEN 0
        ELSE resp.UsageMetadata.PromptTokenCount * rates.In
             + resp.UsageMetadata.CandidatesTokenCount * rates.Out

(***************************************************************************)
(* Tool Executor.  A path is [abs, segs]: whether it starts with a         *)
(* separator, and its segments; a segment is a sequence of atoms, "." and  *)
(* ".." being the segments Dot and DotDot.  [abs |-> FALSE, segs |-> <<>>] *)
(* is both the empty string and ".".                                       *)
(***************************************************************************)
Dot == <<".">>
DotDot == <<"..">>
Sep == "/"

projectRoot == [abs |-> TRUE, segs |-> << <<"srv">>, <<"proj">> >>]

\* filepath.Clean: drop "." and empty segments, let ".." cancel the segment
\* before it, drop a ".." that would climb over the root of a rooted path.
RECURSIVE CleanSegs(_, _, _)
CleanSegs(abs, todo, out) ==
    IF todo = <<>> THEN out
    ELSE LET seg == Head(todo)
             rest == Tail(todo)
         IN  IF seg = Dot \/ seg = <<>> THEN CleanSegs(abs, rest, out)
             ELSE IF seg = DotDot
                  THEN IF out # <<>> /\ out[Len(out)] # DotDot
                       THEN CleanSegs(abs, rest, SubSeq(out, 1, Len(out) - 1))
                       ELSE IF abs THEN CleanSegs(abs, rest, out)
                       ELSE CleanSegs(abs, rest, Append(out, DotDot))
                  ELSE CleanSegs(abs, rest, Append(out, seg))

Clean(path) == [abs |-> path.abs, segs |-> CleanSegs(path.abs, path.segs, <<>>)]

\* filepath.Join(root, elem): the two joined by a separator, then cleaned.
\* A rooted elem contributes an empty segment, which Clean drops.
Join(root, elem) ==
    Clean([abs |-> root.abs, segs |-> root.segs \o elem.segs])

\* filepath.Dir of a clean rooted path
Dir(path) ==
    IF path.segs = <<>> THEN path
    ELSE [path EXCEPT !.segs = SubSeq(path.segs, 1, Len(path.segs) - 1)]

\* the path as the string the code compares
RECURSIVE SegsString(_)
SegsString(segs) ==
    IF segs = <<>> THEN <<>>
    ELSE IF Len(segs) = 1 THEN Head(segs)
    ELSE Head(segs) \o <<Sep>> \o SegsString(Tail(segs))

PathString(path) ==
    IF path.abs THEN <<Sep>> \o SegsString(path.segs)
    ELSE IF path.segs = <<>> THEN Dot
    ELSE SegsString(path.segs)

AccessDenied == "Access denied: outside project root"
UnknownTool == "unknown tool"
\* a result that depends on what the file system holds: the listing, the
\* content, the bytes-written record, or the I/O error
FromFileSystem == "result of the file system"

\* The confinement test of the three tools.
Confined(cleanPath) == HasPrefix(PathString(cleanPath), PathString(projectRoot))

\* Each tool returns [result, ops]: the result part, and the file-system
\* operations the call performs.
toolListFiles(relPath) ==
    LET rel == IF relPath = [abs |-> FALSE, segs |-> <<>>]
               THEN [abs |-> FALSE, segs |-> <<Dot>>] ELSE relPath
        cleanPath == Join(projectRoot, Clean(rel))
    IN  IF ~Confined(cleanPath)
        THEN [result |-> AccessDenied, ops |-> {}]
        ELSE [result |-> FromFileSystem,
              ops |-> {[op |-> "ReadDir", path |-> cleanPath]}]

toolReadFile(relPath) ==
    LET cleanPath == Join(projectRoot, Clean(relPath))
    IN  IF ~Confined(cleanPath)
        THEN [result |-> AccessDenied, ops |-> {}]
        ELSE [result |-> FromFileSystem,
              ops |-> {[op |-> "Stat", path |-> cleanPath],
                       [op |-> "ReadFile", path |-> cleanPath]}]

toolWriteFile(relPath) ==
    LET cleanPath == Join(projectRoot, Clean(relPath))
    IN  IF ~Confined(cleanPath)
        THEN [result |-> AccessDenied, ops |-> {}]
        ELSE [result |-> FromFileSystem,
              ops |-> {[op |-> "MkdirAll", path |-> Dir(cleanPath)],
                       [op |-> "WriteFile", path |-> cleanPath]}]

\* a dispatch that takes any other name for read_file
dispatchTool_defaultsToRead(funcCall) ==
    IF funcCall.Name = "list_files" THEN toolListFiles(funcCall.path)
    ELSE IF funcCall.Name = "write_file" THEN toolWriteFile(funcCall.path)
    ELSE toolReadFile(funcCall.path)

\* The dispatch on the tool name, the same chain in the three tool loops.
dispatchTool(funcCall) ==
    IF funcCall.Name = "list_files" THEN toolListFiles(funcCall.path)
    ELSE IF funcCall.Name = "read_file" THEN toolReadFile(funcCall.path)
    ELSE IF funcCall.Name = "write_file" THEN toolWriteFile(funcCall.path)
    ELSE [result |-> UnknownTool, ops |-> {}]

\* a bundle that answers the first call only
funcResponsesFor_firstOnly(funcCalls) ==
    <<[Name |-> funcCalls[1].Name, Response |-> dispatchTool(funcCalls[1]).result]>>

\* results bundled in the reverse of the calls' order
funcResponsesFor_reversed(funcCalls) ==
    [i \in 1..Len(funcCalls) |->
        [Name |-> funcCalls[Len(funcCalls) + 1 - i].Name,
         Response |-> dispatchTool(funcCalls[Len(funcCalls) + 1 - i]).result]]

\* funcResponses: one FunctionResponse part per call, in the calls' order
funcResponsesFor(funcCalls) ==
    [i \in 1..Len(funcCalls) |->
        [Name |-> funcCalls[i].Name, Response |-> dispatchTool(funcCalls[i]).result]]

\* the executions of the calls: each call with its result and its operations
runOf(funcCall) ==
    [call |-> funcCall, result |-> dispatchTool(funcCall).result,
     ops |-> dispatchTool(funcCall).ops]

runsOf(funcCalls) == {runOf(funcCalls[i]) : i \in 1..Len(funcCalls)}

(***************************************************************************)
(* State.                                                                  *)
(***************************************************************************)
\* request slots: one goroutine per inbound request
Req == {1, 2}

VARIABLES
    sessions,    \* session id -> history (a Go map: absent keys read as empty)
    totalCost,   \* running cost total
    cacheName,   \* active cache reference, "" when none
    cacheModel,  \* model the cache is bound to
    toolRuns,    \* tool executions so far: call, result, file-system operations
    h,           \* per request: the handler's position and local variables
    obs,         \* per request: what the upstream and the client have seen of it
    turns,       \* the requests accepted so far, in order, and what became of them
    mu,          \* the slot whose handler holds the mutex mu, 0 when it is free
    logMu,       \* the slot whose handler holds the mutex logMu, 0 when it is free
    lockOps      \* per request: the mutex operations its handler has still to make

vars == <<sessions, totalCost, cacheName, cacheModel, toolRuns, h, obs, turns, mu,
          logMu, lockOps>>

NoConfig == [CachedContent |-> "", GoogleSearch |-> FALSE, FunctionDeclarations |-> <<>>]
NoChat == [model |-> NoModel, config |-> NoConfig, hist |-> <<>>]
NilRes == [nil |-> TRUE, err |-> "", Candidates |-> FALSE, text |-> <<>>, images |-> 0,
           calls |-> <<>>, UsageMetadata |-> NoUsage]
NoReq == [SessionID |-> "", Model |-> NoModel, Message |-> <<>>, CacheID |-> "",
          UseSearch |-> FALSE, UseAgentic |-> FALSE]
NoOut == [status |-> "", Text |-> <<>>, Images |-> 0, ToolCalls |-> <<>>,
          PromptTokens |-> 0, ResponseTokens |-> 0, TotalTokens |-> 0,
          Cost |-> 0, TotalCost |-> 0, frames |-> <<>>,
          Mode |-> "", CacheID |-> "", CacheModel |-> <<>>, Sessions |-> 0]

IdleFrame ==
    [pc |-> "idle", kind |-> "", req |-> NoReq, history |-> <<>>, activeCID |-> "",
     config |-> NoConfig, chat |-> NoChat, res |-> NilRes, finalResponse |-> <<>>,
     toolLogs |-> <<>>, images |-> 0, requestCost |-> 0,
     promptToks |-> 0, respToks |-> 0, totalToks |-> 0,
     funcResponses |-> <<>>, currentMsg |-> <<>>, out |-> NoOut]

\* submissions: SendMessage / SendMessageStream calls made in the turn;
\* rounds: tool-resolution rounds (a response's calls dispatched);
\* recv: the upstream's answers to the submissions, in order;
\* unresolved: function calls received whose results were not submitted;
\* call: the configuration of the latest upstream call;
\* turn: the request's place in turns;
\* totalAtBegin: the running total when the request was accepted
NoObs == [submissions |-> 0, rounds |-> 0, recv |-> <<>>, unresolved |-> 0,
          call |-> NoConfig, called |-> FALSE, turn |-> 0, totalAtBegin |-> 0]

\* An entry of turns: the adapter, the session and the message of the
\* request; once its history is stored: stored, the upstream's answers, the
\* request's cost and its rank among the stores.
NewTurn(kind, req) ==
    [kind |-> kind, SessionID |-> req.SessionID, Model |-> req.Model, Message |-> req.Message,
     Contents |-> <<>>, stored |-> FALSE, answers |-> <<>>, cost |-> 0, storeSeq |-> 0]

\* the stores made so far
StoresSoFar == Cardinality({i \in 1..Len(turns) : turns[i].stored})

Stored(r) ==
    [turns EXCEPT ![obs[r].turn] =
        [@ EXCEPT !.stored = TRUE, !.answers = obs[r].recv, !.cost = h[r].requestCost,
                  !.storeSeq = 1 + StoresSoFar]]

(***************************************************************************)
(* The upstream (genai SDK) as the handlers see it.                        *)
(***************************************************************************)
ErrResp(e) == [NilRes EXCEPT !.err = e]
NoCandidates(usage) == [NilRes EXCEPT !.nil = FALSE, !.UsageMetadata = usage]
Plain(text, images, usage) ==
    [NilRes EXCEPT !.nil = FALSE, !.Candidates = TRUE, !.text = text,
                   !.images = images, !.UsageMetadata = usage]
WithCalls(calls, usage) ==
    [NilRes EXCEPT !.nil = FALSE, !.Candidates = TRUE, !.calls = calls,
                   !.UsageMetadata = usage]

IsErr(resp) == resp.err # ""
\* res.FunctionCalls() and res.Text()
FunctionCalls(res) == IF res.Candidates THEN res.calls ELSE <<>>
Text(res) == IF res.Candidates THEN res.text ELSE <<>>

\* history turns
UserTurn(text) == [Role |-> "user", text |-> text, calls |-> <<>>, results |-> <<>>, images |-> 0]
ResultsTurn(parts) == [Role |-> "user", text |-> <<>>, calls |-> <<>>, results |-> parts, images |-> 0]
ModelTurn(res) ==
    [Role |-> "model", text |-> Text(res), calls |-> FunctionCalls(res), results |-> <<>>,
     images |-> IF res.Candidates THEN res.images ELSE 0]

\* client.Chats.Create(ctx, model, config, history)
ChatsCreate(model, config, history) == [model |-> model, config |-> config, hist |-> history]

\* chat.SendMessage: on success the input turn and the model's turn are
\* recorded in the chat's history; on failure nothing is recorded and the
\* response is nil.
SendMessage(chat, input, resp) ==
    IF IsErr(resp) THEN chat
    ELSE [chat EXCEPT !.hist = @ \o <<input, ModelTurn(resp)>>]

\* chat.History(false)
History(chat) == chat.hist

\* a store whose reads find no history
SessionGet_forgets(sid) == <<>>

SessionGet(sid) == IF sid \in DOMAIN sessions THEN sessions[sid] ELSE <<>>
\* a store that keeps what it holds unless the new history is longer
SessionPut_keepsLonger(sid, history) ==
    IF sid \in DOMAIN sessions /\ Len(sessions[sid]) >= Len(history) THEN sessions
    ELSE [s \in DOMAIN sessions \cup {sid} |-> IF s = sid THEN history ELSE sessions[s]]

SessionPut(sid, history) ==
    [s \in DOMAIN sessions \cup {sid} |-> IF s = sid THEN history ELSE sessions[s]]

\* the upstream answers with function calls at most MaxRounds times per turn
MayAnswer(r, resp) ==
    FunctionCalls(resp) # <<>> =>
        Cardinality({i \in 1..Len(obs[r].recv) : FunctionCalls(obs[r].recv[i]) # <<>>}) < MaxRounds

\* A submission was made with `config`, carrying `answered` function
\* results, and the upstream answered `resp`; `after` is the handler's frame
\* when it next waits: a round was performed when it holds results to send.
Submitted(o, config, resp, answered, after) ==
    [o EXCEPT !.submissions = @ + 1,
              !.recv = Append(@, resp),
              !.rounds = @ + IF after.pc = "sendTools" THEN 1 ELSE 0,
              !.unresolved = (@ - answered) + Len(FunctionCalls(resp)),
              !.call = config,
              !.called = TRUE]

\* a handler that leaves its critical section without releasing mu
Unlocked_keepsHolding(r) == r

\* mu.Lock() is the guard mu = 0; mu.Unlock() by the handler of slot r
Unlocked(r) == 0

(***************************************************************************)
(* Startup (main): the cache state after the flags are processed.          *)
(***************************************************************************)
ServerCache == "cachedContents/server"
ModelFlags == {Flash, Flash001}

\* explicit cache id, or cache built: the cache is bound to the -model flag;
\* clean mode: no cache, cacheModel is the flag; cache build rejected by
\* the upstream: no cache, cacheModel left empty.
Init ==
    /\ sessions = <<>>
    /\ totalCost = 0
    /\ \E modelName \in ModelFlags :
          \/ cacheName = ServerCache /\ cacheModel = modelName
          \/ cacheName = "" /\ cacheModel = modelName
          \/ cacheName = "" /\ cacheModel = NoModel
    /\ toolRuns = {}
    /\ h = [r \in Req |-> IdleFrame]
    /\ obs = [r \in Req |-> NoObs]
    /\ turns = <<>>
    /\ mu = 0
    /\ logMu = 0
    /\ lockOps = [r \in Req |-> <<>>]

(***************************************************************************)
(* handleChat: the native adapter.                                         *)
(***************************************************************************)
\* ActiveCID without the image-model test
ActiveCID_noImageTest(req) ==
    IF req.CacheID # "" THEN req.CacheID
    ELSE IF cacheName # ""
         THEN IF HasPrefix(req.Model, TrimSuffix(cacheModel, <<"-", "001">>))
              THEN cacheName ELSE ""
         ELSE ""

\* ActiveCID with the server's cache taking precedence over the override
ActiveCID_serverFirst(req) ==
    IF cacheName # "" THEN cacheName ELSE req.CacheID

\* the cache eligibility decision (activeCID)
ActiveCID(req) ==
    IF req.CacheID # "" THEN req.CacheID
    ELSE IF cacheName # ""
         THEN LET isImageModel == Contains(req.Model, <<"image">>)
                  isDifferentFamily ==
                      ~HasPrefix(req.Model, TrimSuffix(cacheModel, <<"-", "001">>))
              IN  IF ~isImageModel /\ ~isDifferentFamily THEN cacheName ELSE ""
         ELSE ""

\* ChatConfig attaching the cache whatever the tool flags are
ChatConfig_cacheWithTools(req, activeCID) ==
    [CachedContent |-> activeCID,
     GoogleSearch |-> req.UseSearch,
     FunctionDeclarations |->
        IF req.UseAgentic
        THEN <<"write_file">> \o
             (IF activeCID = "" THEN <<"list_files", "read_file">> ELSE <<>>)
        ELSE <<>>]

\* the GenerateContentConfig of /chat
ChatConfig(req, activeCID) ==
    [CachedContent |->
        IF activeCID # "" /\ ~req.UseAgentic /\ ~req.UseSearch THEN activeCID ELSE "",
     GoogleSearch |-> req.UseSearch,
     FunctionDeclarations |->
        IF req.UseAgentic
        THEN <<"write_file">> \o
             (IF activeCID = "" THEN <<"list_files", "read_file">> ELSE <<>>)
        ELSE <<>>]

ChatDefaults(raw) ==
    [raw EXCEPT !.Model = IF @ = NoModel THEN DefaultModel ELSE @,
                !.SessionID = IF @ = "" THEN "default" ELSE @]

Free(r) == h[r].pc \in {"idle", "done"}

ChatBegin(r, raw) ==
    /\ Free(r)
    /\ LET req == ChatDefaults(raw)
           activeCID == ActiveCID(req)
       IN  h' = [h EXCEPT ![r] =
                    [IdleFrame EXCEPT !.pc = "create", !.kind = "chat", !.req = req,
                                      !.history = SessionGet(req.SessionID),
                                      !.activeCID = activeCID,
                                      !.config = ChatConfig(req, activeCID)]]
    /\ obs' = [obs EXCEPT ![r] = [NoObs EXCEPT !.turn = Len(turns) + 1,
                                                !.totalAtBegin = totalCost]]
    /\ turns' = Append(turns, NewTurn("chat", h'[r].req))
    /\ mu = 0 /\ mu' = Unlocked(r)
    /\ UNCHANGED <<sessions, totalCost, cacheName, cacheModel, logMu, lockOps, toolRuns>>

\* a failure handled as the loop handles one after a tool round: the
\* message becomes the turn's text and the turn goes on to the store
chatFail_degrades(f, msg) == [f EXCEPT !.pc = "store", !.finalResponse = msg]

\* http.Error(w, msg, 500); return
chatFail(f, msg) ==
    [f EXCEPT !.pc = "done", !.out = [NoOut EXCEPT !.status = "500", !.Text = msg]]

\* err: the error of client.Chats.Create, "" when it succeeds
ChatCreate(r, err) ==
    /\ h[r].pc = "create" /\ h[r].kind = "chat"
    /\ h' = [h EXCEPT ![r] =
                IF err # ""
                THEN chatFail(@, <<"Failed to create chat: ", err>>)
                ELSE [@ EXCEPT !.pc = "send",
                               !.chat = ChatsCreate(h[r].req.Model, h[r].config, h[r].history),
                               !.req.Message = IF @ = <<>> THEN <<"Hello">> ELSE @]]
    /\ UNCHANGED <<sessions, totalCost, cacheName, cacheModel, logMu, lockOps, toolRuns, obs, turns, mu>>

\* fmt.Sprintf("Executed: %s", toolName)
toolLog(toolName) == <<"Executed: ", toolName>>

\* One pass of the loop body on response res, up to the next SendMessage or
\* to the loop's exit.
chatLoop(f, res, modelKey) ==
    LET costed == [f EXCEPT !.res = res,
                            !.requestCost = @ + calculateCost(f.req.Model, res, modelKey)]
        funcCalls == FunctionCalls(res)
    IN  IF ~res.Candidates THEN [costed EXCEPT !.pc = "store"]
        ELSE IF Len(funcCalls) > 0
        THEN [costed EXCEPT !.pc = "sendTools",
                            !.toolLogs = @ \o [i \in 1..Len(funcCalls) |->
                                                   toolLog(funcCalls[i].Name)],
                            !.funcResponses = funcResponsesFor(funcCalls)]
        ELSE [costed EXCEPT !.pc = "store",
                            !.finalResponse = Text(res),
                            !.images = @ + res.images]

\* the tool executions of that pass
chatToolRuns(res) == IF res.Candidates THEN runsOf(FunctionCalls(res)) ELSE {}

\* the first SendMessage, with the user's message
ChatSend(r, resp, modelKey) ==
    /\ h[r].pc = "send" /\ h[r].kind = "chat"
    /\ MayAnswer(r, resp)
    /\ modelKey \in RangeStops(h[r].req.Model)
    /\ LET f == h[r]
           sent == [f EXCEPT !.chat = SendMessage(@, UserTurn(f.req.Message), resp)]
           counted == IF resp.UsageMetadata # NoUsage
                      THEN [sent EXCEPT
                               !.promptToks = resp.UsageMetadata.PromptTokenCount,
                               !.respToks = resp.UsageMetadata.CandidatesTokenCount,
                               !.totalToks = resp.UsageMetadata.TotalTokenCount]
                      ELSE sent
       IN  /\ h' = [h EXCEPT ![r] =
                      IF IsErr(resp) THEN chatFail(f, <<resp.err>>)
                      ELSE chatLoop(counted, resp, modelKey)]
           /\ toolRuns' = IF IsErr(resp) THEN toolRuns ELSE toolRuns \cup chatToolRuns(resp)
           /\ obs' = [obs EXCEPT ![r] = Submitted(@, f.chat.config, resp, 0, h'[r])]
    /\ UNCHANGED <<sessions, totalCost, cacheName, cacheModel, logMu, lockOps, turns, mu>>

\* a failure after a tool round that ends the request as the early ones do
chatDegraded_aborts(f, err) ==
    [f EXCEPT !.pc = "done", !.out = [NoOut EXCEPT !.status = "500", !.Text = <<err>>]]

\* the failure of SendMessage(funcResponses...): the labelled text, break
chatDegraded(f, err) ==
    [f EXCEPT !.pc = "store", !.res = NilRes,
              !.finalResponse = <<"Error after tool execution: ", err>>]

\* SendMessage(funcResponses...): the results of a round, in one message
ChatSendTools(r, resp, modelKey) ==
    /\ h[r].pc = "sendTools" /\ h[r].kind = "chat"
    /\ MayAnswer(r, resp)
    /\ modelKey \in RangeStops(h[r].req.Model)
    /\ LET f == h[r]
           sent == [f EXCEPT !.chat = SendMessage(@, ResultsTurn(f.funcResponses), resp),
                             !.funcResponses = <<>>]
           counted == IF resp.UsageMetadata # NoUsage
                      THEN [sent EXCEPT
                               !.respToks = @ + resp.UsageMetadata.CandidatesTokenCount,
                               !.totalToks = resp.UsageMetadata.TotalTokenCount]
                      ELSE sent
       IN  /\ h' = [h EXCEPT ![r] =
                      IF IsErr(resp) THEN chatDegraded(sent, resp.err)
                      ELSE chatLoop(counted, resp, modelKey)]
           /\ toolRuns' = IF IsErr(resp) THEN toolRuns ELSE toolRuns \cup chatToolRuns(resp)
           /\ obs' = [obs EXCEPT ![r] =
                        Submitted(@, f.chat.config, resp, Len(f.funcResponses), h'[r])]
    /\ UNCHANGED <<sessions, totalCost, cacheName, cacheModel, logMu, lockOps, turns, mu>>

\* fmt's %d
RECURSIVE Itoa(_)
Itoa(n) ==
    LET digit == <<"0", "1", "2", "3", "4", "5", "6", "7", "8", "9">>[(n % 10) + 1]
    IN  IF n < 10 THEN <<digit>> ELSE Itoa(n \div 10) \o <<digit>>

\* a final text that looks at the images before it looks at the tools
chatFinalText_imagesFirst(finalResponse, toolLogs, images) ==
    LET trimmed == TrimSpace(finalResponse)
    IN  IF trimmed # <<>> THEN trimmed
        ELSE IF images > 0 THEN <<"[Generated ">> \o Itoa(images) \o <<" image(s)]">>
        ELSE IF Len(toolLogs) > 0
        THEN <<"[Executed ">> \o Itoa(Len(toolLogs)) \o <<" tool(s) but model provided no summary.]">>
        ELSE <<"[System Warning: Model returned empty content. This may be a safety block or API glitch.]">>

\* the text returned when the loop has ended
chatFinalText(finalResponse, toolLogs, images) ==
    LET trimmed == TrimSpace(finalResponse)
    IN  IF trimmed = <<>> /\ Len(toolLogs) = 0 /\ images = 0
        THEN <<"[System Warning: Model returned empty content. This may be a safety block or API glitch.]">>
        ELSE IF trimmed = <<>> /\ Len(toolLogs) > 0
        THEN <<"[Executed ">> \o Itoa(Len(toolLogs)) \o <<" tool(s) but model provided no summary.]">>
        ELSE IF trimmed = <<>> /\ images > 0
        THEN <<"[Generated ">> \o Itoa(images) \o <<" image(s)]">>
        ELSE trimmed

\* mu.Lock(); sessions[req.SessionID] = chat.History(false)
ChatStore(r) ==
    /\ h[r].pc = "store" /\ h[r].kind = "chat"
    /\ mu = 0 /\ mu' = r
    /\ h' = [h EXCEPT ![r] =
                [@ EXCEPT !.pc = "storeCost",
                          !.finalResponse = chatFinalText(@, h[r].toolLogs, h[r].images)]]
    /\ sessions' = SessionPut(h[r].req.SessionID, History(h[r].chat))
    /\ turns' = Stored(r)
    /\ UNCHANGED <<totalCost, cacheName, cacheModel, logMu, lockOps, toolRuns, obs>>

\* a total computed from the value the total had when the request began
Accumulated_stale(r) == obs[r].totalAtBegin + h[r].requestCost

\* totalCost += requestCost
Accumulated(r) == totalCost + h[r].requestCost

\* totalCost += requestCost; mu.Unlock()
ChatStoreCost(r) ==
    /\ h[r].pc = "storeCost" /\ h[r].kind = "chat"
    /\ mu = r /\ mu' = Unlocked(r)
    /\ h' = [h EXCEPT ![r].pc = "respond"]
    /\ totalCost' = Accumulated(r)
    /\ UNCHANGED <<sessions, cacheName, cacheModel, logMu, lockOps, toolRuns, obs, turns>>

\* the JSON response; totalCost is read here, after mu was released
ChatRespond(r) ==
    /\ h[r].pc = "respond" /\ h[r].kind = "chat"
    /\ h' = [h EXCEPT ![r] =
                [@ EXCEPT !.pc = "done",
                          !.out = [NoOut EXCEPT !.status = "200",
                                                !.Text = h[r].finalResponse,
                                                !.Images = h[r].images,
                                                !.ToolCalls = h[r].toolLogs,
                                                !.PromptTokens = h[r].promptToks,
                                                !.ResponseTokens = h[r].respToks,
                                                !.TotalTokens = h[r].totalToks,
                                                !.Cost = h[r].requestCost,
                                                !.TotalCost = totalCost]]]
    /\ UNCHANGED <<sessions, totalCost, cacheName, cacheModel, logMu, lockOps, toolRuns, obs, turns, mu>>

(***************************************************************************)
(* handleReset                                                             *)
(***************************************************************************)
\* a reset that spares the conversations of the OpenAI adapters
Reset_sparesOpenAI ==
    /\ sessions' = [s \in DOMAIN sessions \cap {"openai-compat", "openai-stream"} |-> sessions[s]]
    /\ turns' = Append(turns, [NewTurn("reset", NoReq) EXCEPT !.storeSeq = StoresSoFar])
    /\ mu = 0
    /\ UNCHANGED <<totalCost, cacheName, cacheModel, logMu, lockOps, toolRuns, h, obs, mu>>

Reset ==
    /\ sessions' = <<>>
    /\ turns' = Append(turns, [NewTurn("reset", NoReq) EXCEPT !.storeSeq = StoresSoFar])
    /\ mu = 0
    /\ UNCHANGED <<totalCost, cacheName, cacheModel, logMu, lockOps, toolRuns, h, obs, mu>>

(***************************************************************************)
(* handleOpenAIChat: the OpenAI-compatible adapter, buffered.              *)
(***************************************************************************)
\* the last user-role message of the list
RECURSIVE lastUserMsg(_, _)
lastUserMsg(messages, userMsg) ==
    IF messages = <<>> THEN userMsg
    ELSE lastUserMsg(Tail(messages),
                     IF Head(messages).Role = "user" THEN Head(messages).Content ELSE userMsg)

isBlockedModel(model) ==
    \/ Contains(model, <<"-", "exp">>)
    \/ Contains(model, <<"experimental">>)
    \/ Contains(model, <<"2.0", "-", "flash", "-", "exp">>)
    \/ Contains(model, <<"2.0", "-", "pro", "-", "exp">>)

\* the model mapping of both OpenAI handlers: [rejected, model]
openAIModel(reqModel) ==
    IF HasPrefix(reqModel, <<"gemini", "-">>)
    THEN [rejected |-> isBlockedModel(reqModel), model |-> reqModel]
    ELSE [rejected |-> FALSE,
          model |-> IF cacheModel = NoModel THEN DefaultModel ELSE cacheModel]

fileTools == <<"write_file", "list_files", "read_file">>

\* tools always declared, never a cache reference
OpenAIConfig == [NoConfig EXCEPT !.FunctionDeclarations = fileTools]

OpenAIBegin(r, raw) ==
    /\ Free(r)
    /\ ~raw.Stream
    /\ LET userMsg == lastUserMsg(raw.Messages, <<>>)
           mapped == openAIModel(raw.Model)
           req == [NoReq EXCEPT !.SessionID = "openai-compat", !.Model = mapped.model,
                                !.Message = userMsg]
       IN  /\ mapped.rejected \/ mu = 0
           /\ mu' = IF mapped.rejected THEN mu ELSE Unlocked(r)
           /\ h' = [h EXCEPT ![r] =
                       IF mapped.rejected
                       THEN [IdleFrame EXCEPT
                                !.pc = "done", !.kind = "openai",
                                !.out = [NoOut EXCEPT !.status = "400",
                                            !.Text = <<"Experimental models are not allowed">>]]
                       ELSE [IdleFrame EXCEPT
                                !.pc = "create", !.kind = "openai", !.req = req,
                                !.history = SessionGet(req.SessionID),
                                !.config = OpenAIConfig]]
    /\ obs' = [obs EXCEPT ![r] = [NoObs EXCEPT !.turn = Len(turns) + 1,
                                                !.totalAtBegin = totalCost]]
    /\ turns' = Append(turns, NewTurn("openai", [h'[r].req EXCEPT !.Model = raw.Model]))
    /\ UNCHANGED <<sessions, totalCost, cacheName, cacheModel, logMu, lockOps, toolRuns>>

OpenAICreate(r, err) ==
    /\ h[r].pc = "create" /\ h[r].kind = "openai"
    /\ h' = [h EXCEPT ![r] =
                IF err # ""
                THEN [@ EXCEPT !.pc = "done",
                               !.out = [NoOut EXCEPT !.status = "500", !.Text = <<err>>]]
                ELSE [@ EXCEPT !.pc = "send",
                               !.chat = ChatsCreate(h[r].req.Model, h[r].config, h[r].history)]]
    /\ UNCHANGED <<sessions, totalCost, cacheName, cacheModel, logMu, lockOps, toolRuns, obs, turns, mu>>

\* a loop body that leaves the loop without keeping the answer's text
openAILoop_dropsText(f, res) ==
    LET funcCalls == FunctionCalls(res)
    IN  IF Len(funcCalls) = 0
        THEN [f EXCEPT !.pc = "store", !.res = res]
        ELSE [f EXCEPT !.pc = "sendTools", !.res = res,
                       !.funcResponses = funcResponsesFor(funcCalls)]

\* one pass of the loop body
openAILoop(f, res) ==
    LET funcCalls == FunctionCalls(res)
    IN  IF Len(funcCalls) = 0
        THEN [f EXCEPT !.pc = "store", !.res = res, !.finalResponse = Text(res)]
        ELSE [f EXCEPT !.pc = "sendTools", !.res = res,
                       !.funcResponses = funcResponsesFor(funcCalls)]

OpenAISend(r, resp) ==
    /\ h[r].pc = "send" /\ h[r].kind = "openai"
    /\ MayAnswer(r, resp)
    /\ LET f == h[r]
           sent == [f EXCEPT !.chat = SendMessage(@, UserTurn(f.req.Message), resp)]
       IN  /\ h' = [h EXCEPT ![r] =
                      IF IsErr(resp)
                      THEN [f EXCEPT !.pc = "done",
                                     !.out = [NoOut EXCEPT !.status = "500",
                                                           !.Text = <<resp.err>>]]
                      ELSE openAILoop(sent, resp)]
           /\ toolRuns' = IF IsErr(resp) THEN toolRuns ELSE toolRuns \cup runsOf(FunctionCalls(resp))
           /\ obs' = [obs EXCEPT ![r] = Submitted(@, f.chat.config, resp, 0, h'[r])]
    /\ UNCHANGED <<sessions, totalCost, cacheName, cacheModel, logMu, lockOps, turns, mu>>

OpenAISendTools(r, resp) ==
    /\ h[r].pc = "sendTools" /\ h[r].kind = "openai"
    /\ MayAnswer(r, resp)
    /\ LET f == h[r]
           sent == [f EXCEPT !.chat = SendMessage(@, ResultsTurn(f.funcResponses), resp),
                             !.funcResponses = <<>>]
       IN  /\ h' = [h EXCEPT ![r] =
                      IF IsErr(resp)
                      THEN [sent EXCEPT !.pc = "store", !.res = NilRes,
                                        !.finalResponse =
                                            <<"Error after tool execution: ", resp.err>>]
                      ELSE openAILoop(sent, resp)]
           /\ toolRuns' = IF IsErr(resp) THEN toolRuns ELSE toolRuns \cup runsOf(FunctionCalls(resp))
           /\ obs' = [obs EXCEPT ![r] =
                        Submitted(@, f.chat.config, resp, Len(f.funcResponses), h'[r])]
    /\ UNCHANGED <<sessions, totalCost, cacheName, cacheModel, logMu, lockOps, turns, mu>>

OpenAIStore(r) ==
    /\ h[r].pc = "store" /\ h[r].kind = "openai"
    /\ h' = [h EXCEPT ![r].pc = "respond"]
    /\ sessions' = SessionPut(h[r].req.SessionID, History(h[r].chat))
    /\ turns' = Stored(r)
    /\ mu = 0 /\ mu' = Unlocked(r)
    /\ UNCHANGED <<totalCost, cacheName, cacheModel, logMu, lockOps, toolRuns, obs>>

\* res.UsageMetadata is read whatever res is: with res nil the handler
\* panics, and net/http drops the connection without a response.
OpenAIRespond(r) ==
    /\ h[r].pc = "respond" /\ h[r].kind = "openai"
    /\ h' = [h EXCEPT ![r] =
                IF @.res.nil
                THEN [@ EXCEPT !.pc = "done", !.out = [NoOut EXCEPT !.status = "panic"]]
                ELSE [@ EXCEPT
                        !.pc = "done",
                        !.out = [NoOut EXCEPT
                            !.status = "200",
                            !.Text = h[r].finalResponse,
                            !.PromptTokens =
                                IF h[r].res.UsageMetadata = NoUsage THEN 0
                                ELSE h[r].res.UsageMetadata.PromptTokenCount,
                            !.ResponseTokens =
                                IF h[r].res.UsageMetadata = NoUsage THEN 0
                                ELSE h[r].res.UsageMetadata.CandidatesTokenCount,
                            !.TotalTokens =
                                IF h[r].res.UsageMetadata = NoUsage THEN 0
                                ELSE h[r].res.UsageMetadata.TotalTokenCount]]]
    /\ UNCHANGED <<sessions, totalCost, cacheName, cacheModel, logMu, lockOps, toolRuns, obs, turns, mu>>

(***************************************************************************)
(* handleOpenAIStream: the OpenAI-compatible adapter, streaming.           *)
(***************************************************************************)
Frame(type, data) == [type |-> type, data |-> data]
ErrorFrame(err) == Frame("error", <<err>>)
DoneFrame == Frame("[DONE]", <<>>)

Emit(f, frames) == [f EXCEPT !.out.frames = @ \o frames]

OpenAIStreamBegin(r, raw) ==
    /\ Free(r)
    /\ raw.Stream
    /\ LET userMsg == lastUserMsg(raw.Messages, <<>>)
           mapped == openAIModel(raw.Model)
           req == [NoReq EXCEPT !.SessionID = "openai-stream", !.Model = mapped.model,
                                !.Message = userMsg]
       IN  /\ mapped.rejected \/ mu = 0
           /\ mu' = IF mapped.rejected THEN mu ELSE Unlocked(r)
           /\ h' = [h EXCEPT ![r] =
                       IF mapped.rejected
                       THEN Emit([IdleFrame EXCEPT !.pc = "done", !.kind = "openai-stream"],
                                 <<ErrorFrame("Experimental models are not allowed")>>)
                       ELSE [IdleFrame EXCEPT
                                !.pc = "create", !.kind = "openai-stream", !.req = req,
                                !.history = SessionGet(req.SessionID),
                                !.config = OpenAIConfig,
                                !.currentMsg = userMsg]]
    /\ obs' = [obs EXCEPT ![r] = [NoObs EXCEPT !.turn = Len(turns) + 1,
                                                !.totalAtBegin = totalCost]]
    /\ turns' = Append(turns, NewTurn("openai-stream", [h'[r].req EXCEPT !.Model = raw.Model]))
    /\ UNCHANGED <<sessions, totalCost, cacheName, cacheModel, logMu, lockOps, toolRuns>>

OpenAIStreamCreate(r, err) ==
    /\ h[r].pc = "create" /\ h[r].kind = "openai-stream"
    /\ h' = [h EXCEPT ![r] =
                IF err # ""
                THEN Emit([@ EXCEPT !.pc = "done"], <<ErrorFrame(err)>>)
                ELSE [@ EXCEPT !.pc = "send",
                               !.chat = ChatsCreate(h[r].req.Model, h[r].config, h[r].history)]]
    /\ UNCHANGED <<sessions, totalCost, cacheName, cacheModel, logMu, lockOps, toolRuns, obs, turns, mu>>

\* The top of the loop: SendMessage(Text: currentMsg), then either the
\* tool-call frames and the dispatch, or the content frames and [DONE].
OpenAIStreamSend(r, resp) ==
    /\ h[r].pc = "send" /\ h[r].kind = "openai-stream"
    /\ MayAnswer(r, resp)
    /\ LET f == h[r]
           sent == [f EXCEPT !.chat = SendMessage(@, UserTurn(f.currentMsg), resp),
                             !.res = resp]
           funcCalls == FunctionCalls(resp)
           responseText == Text(resp)
       IN  /\ h' = [h EXCEPT ![r] =
                      IF IsErr(resp)
                      THEN Emit([f EXCEPT !.pc = "done"], <<ErrorFrame(resp.err)>>)
                      ELSE IF Len(funcCalls) > 0
                      THEN Emit([sent EXCEPT !.pc = "sendTools",
                                             !.funcResponses = funcResponsesFor(funcCalls),
                                             !.currentMsg = <<>>],
                                [i \in 1..Len(funcCalls) |->
                                    Frame("tool_calls", <<funcCalls[i].Name>>)])
                      ELSE Emit([sent EXCEPT !.pc = "store",
                                             !.finalResponse = responseText],
                                [i \in 1..Len(responseText) |->
                                    Frame("content", <<responseText[i]>>)]
                                \o <<DoneFrame>>)]
           /\ toolRuns' = IF IsErr(resp) THEN toolRuns ELSE toolRuns \cup runsOf(funcCalls)
           /\ obs' = [obs EXCEPT ![r] = Submitted(@, f.chat.config, resp, 0, h'[r])]
    /\ UNCHANGED <<sessions, totalCost, cacheName, cacheModel, logMu, lockOps, turns, mu>>

\* SendMessage(funcResponses...), then `continue`: the response assigned
\* to res is dropped when the loop's top declares res anew.
OpenAIStreamSendTools(r, resp) ==
    /\ h[r].pc = "sendTools" /\ h[r].kind = "openai-stream"
    /\ MayAnswer(r, resp)
    /\ LET f == h[r]
           sent == [f EXCEPT !.chat = SendMessage(@, ResultsTurn(f.funcResponses), resp),
                             !.funcResponses = <<>>]
       IN  /\ h' = [h EXCEPT ![r] =
                      IF IsErr(resp)
                      THEN Emit([sent EXCEPT !.pc = "done"], <<ErrorFrame(resp.err)>>)
                      ELSE [sent EXCEPT !.pc = "send", !.res = NilRes]]
           /\ obs' = [obs EXCEPT ![r] =
                        Submitted(@, f.chat.config, resp, Len(f.funcResponses), h'[r])]
    /\ UNCHANGED <<sessions, totalCost, cacheName, cacheModel, logMu, lockOps, toolRuns, turns, mu>>

OpenAIStreamStore(r) ==
    /\ h[r].pc = "store" /\ h[r].kind = "openai-stream"
    /\ h' = [h EXCEPT ![r].pc = "done"]
    /\ sessions' = SessionPut("openai-stream", History(h[r].chat))
    /\ turns' = Stored(r)
    /\ mu = 0 /\ mu' = Unlocked(r)
    /\ UNCHANGED <<totalCost, cacheName, cacheModel, logMu, lockOps, toolRuns, obs>>

(***************************************************************************)
(* handleStream: the provider passthrough, streaming.                      *)
(***************************************************************************)
\* the first part's text of the user-role entries, each overwriting the last
RECURSIVE contentsUserMsg(_, _)
contentsUserMsg(contents, userMsg) ==
    IF contents = <<>> THEN userMsg
    ELSE LET content == Head(contents)
             found == /\ content.role = "user"
                      /\ Len(content.parts) > 0
                      /\ content.parts[1].isText
         IN  contentsUserMsg(Tail(contents),
                             IF found THEN content.parts[1].text ELSE userMsg)

\* the cache reference of the passthrough call: the request's, else the server's
StreamConfig(cachedContent) ==
    LET activeCID == IF cachedContent = "" THEN cacheName ELSE cachedContent
    IN  [NoConfig EXCEPT !.CachedContent = activeCID]

\* raw.Model: the path segment after /models/, NoModel when it is empty
StreamBegin(r, raw) ==
    /\ Free(r)
    /\ LET userMsg == contentsUserMsg(raw.Contents, <<>>)
           model == IF raw.Model = NoModel THEN DefaultModel ELSE raw.Model
       IN  h' = [h EXCEPT ![r] =
                    [IdleFrame EXCEPT
                        !.pc = "create", !.kind = "gemini-stream",
                        !.req = [NoReq EXCEPT !.Model = model, !.Message = userMsg,
                                              !.CacheID = raw.CachedContent],
                        !.config = StreamConfig(raw.CachedContent)]]
    /\ obs' = [obs EXCEPT ![r] = [NoObs EXCEPT !.turn = Len(turns) + 1,
                                                !.totalAtBegin = totalCost]]
    /\ turns' = Append(turns, [NewTurn("gemini-stream", h'[r].req) EXCEPT
                                  !.Contents = raw.Contents])
    /\ UNCHANGED <<sessions, totalCost, cacheName, cacheModel, logMu, lockOps, toolRuns, mu>>

StreamCreate(r, err) ==
    /\ h[r].pc = "create" /\ h[r].kind = "gemini-stream"
    /\ h' = [h EXCEPT ![r] =
                IF err # ""
                THEN Emit([@ EXCEPT !.pc = "done"], <<ErrorFrame(err)>>)
                ELSE [@ EXCEPT !.pc = "send",
                               !.chat = ChatsCreate(h[r].req.Model, h[r].config, <<>>)]]
    /\ UNCHANGED <<sessions, totalCost, cacheName, cacheModel, logMu, lockOps, toolRuns, obs, turns, mu>>

\* the frames relayed for the events of SendMessageStream, up to the first error
RECURSIVE relay(_)
relay(events) ==
    IF events = <<>> THEN <<>>
    ELSE IF IsErr(Head(events)) THEN <<ErrorFrame(Head(events).err)>>
    ELSE <<Frame("chunk", Text(Head(events)))>> \o relay(Tail(events))

RECURSIVE relayedText(_)
relayedText(events) ==
    IF events = <<>> \/ IsErr(Head(events)) THEN <<>>
    ELSE Text(Head(events)) \o relayedText(Tail(events))

\* events: what the iterator of SendMessageStream yields
StreamSend(r, events) ==
    /\ h[r].pc = "send" /\ h[r].kind = "gemini-stream"
    /\ h' = [h EXCEPT ![r] =
                Emit([@ EXCEPT !.pc = "done", !.finalResponse = relayedText(events)],
                     relay(events))]
    /\ obs' = [obs EXCEPT ![r] = [@ EXCEPT !.submissions = @ + 1,
                                           !.call = h[r].chat.config,
                                           !.called = TRUE]]
    /\ UNCHANGED <<sessions, totalCost, cacheName, cacheModel, logMu, lockOps, toolRuns, turns, mu>>

(***************************************************************************)
(* handleStatus: the server's state, read without taking mu.               *)
(***************************************************************************)
Status(r) ==
    /\ Free(r)
    /\ h' = [h EXCEPT ![r] =
                [IdleFrame EXCEPT
                    !.pc = "done", !.kind = "status",
                    !.out = [NoOut EXCEPT
                                !.status = "200",
                                !.Mode = IF cacheName # "" THEN "CACHED" ELSE "CLEAN",
                                !.CacheID = cacheName,
                                !.CacheModel = cacheModel,
                                !.TotalCost = totalCost,
                                !.Sessions = Cardinality(DOMAIN sessions)]]]
    /\ obs' = [obs EXCEPT ![r] = [NoObs EXCEPT !.turn = Len(turns) + 1,
                                                !.totalAtBegin = totalCost]]
    /\ turns' = Append(turns, NewTurn("status", NoReq))
    /\ UNCHANGED <<sessions, totalCost, cacheName, cacheModel, logMu, lockOps, toolRuns, mu>>

(***************************************************************************)
(* One tool execution on its own.                                          *)
(***************************************************************************)
ToolRun(funcCall) ==
    /\ toolRuns' = toolRuns \cup {runOf(funcCall)}
    /\ turns' = Append(turns, NewTurn("tool", NoReq))
    /\ UNCHANGED <<sessions, totalCost, cacheName, cacheModel, logMu, lockOps, h, obs, mu>>

(***************************************************************************)
(* Inputs.                                                                 *)
(***************************************************************************)
Usage(prompt, candidates) ==
    [PromptTokenCount |-> prompt, CandidatesTokenCount |-> candidates,
     TotalTokenCount |-> prompt + candidates]

OverrideCache == "cachedContents/override"
Rel(segs) == [abs |-> FALSE, segs |-> segs]
Call(name, path) == [Name |-> name, path |-> path]

Hi == <<"h", "i">>
WriteX == Call("write_file", Rel(<< <<"out">> >>))
Errs == {"", "upstream unavailable"}

\* requests of Spec: every combination the eligibility rules distinguish
ChatRaws ==
    [SessionID : {""},
     Model : {NoModel, Flash, Flash001, FlashLite, FlashImage, Pro15},
     Message : {<<"m1">>},
     CacheID : {"", OverrideCache},
     UseSearch : BOOLEAN,
     UseAgentic : BOOLEAN]

OpenAIRaws ==
    [Model : {Flash, FlashExp, Gpt4},
     Messages : {<< [Role |-> "system", Content |-> <<"s">>],
                    [Role |-> "user", Content |-> <<"m1">>] >>},
     Stream : BOOLEAN]

StreamRaws ==
    [Contents : {<< [role |-> "user", parts |-> << [isText |-> TRUE, text |-> <<"m1">>] >>] >>,
                 << [role |-> "user", parts |-> << [isText |-> TRUE, text |-> <<"m1">>] >>],
                    [role |-> "model", parts |-> << [isText |-> TRUE, text |-> <<"a1">>] >>],
                    [role |-> "user", parts |-> << [isText |-> TRUE, text |-> <<"m2">>] >>] >>},
     CachedContent : {"", OverrideCache},
     Model : {NoModel, Pro15}]

Responses ==
    {ErrResp("upstream unavailable"), Plain(Hi, 0, Usage(2, 1)),
     WithCalls(<<WriteX>>, Usage(2, 1))}

StreamEvents ==
    {<<>>, <<Plain(Hi, 0, Usage(2, 1))>>,
     <<Plain(Hi, 0, Usage(2, 1)), ErrResp("upstream unavailable")>>}

\* the requests of Spec are served one at a time, in slot 1
Serving == {1}

(***************************************************************************)
(* Spec: every adapter, every combination of the request's parameters.     *)
(***************************************************************************)
\* fewer than n requests were accepted
Accepting(n) == Len(turns) < n

Begin ==
    \E r \in Serving :
        \/ \E raw \in ChatRaws : Accepting(MaxTurns) /\ ChatBegin(r, raw)
        \/ \E raw \in OpenAIRaws : Accepting(MaxTurns) /\ OpenAIBegin(r, raw)
        \/ \E raw \in OpenAIRaws : Accepting(MaxTurns) /\ OpenAIStreamBegin(r, raw)
        \/ \E raw \in StreamRaws : Accepting(MaxTurns) /\ StreamBegin(r, raw)

Create ==
    \E r \in Serving, err \in Errs :
        \/ ChatCreate(r, err)
        \/ OpenAICreate(r, err)
        \/ OpenAIStreamCreate(r, err)
        \/ StreamCreate(r, err)

Upstream(r, resps) ==
    \/ \E resp \in resps, modelKey \in DOMAIN modelCosts \cup {NoKey} :
          \/ ChatSend(r, resp, modelKey)
          \/ ChatSendTools(r, resp, modelKey)
    \/ \E resp \in resps :
          \/ OpenAISend(r, resp)
          \/ OpenAISendTools(r, resp)
          \/ OpenAIStreamSend(r, resp)
          \/ OpenAIStreamSendTools(r, resp)

Finish(r) ==
    \/ ChatStore(r)
    \/ ChatStoreCost(r)
    \/ ChatRespond(r)
    \/ OpenAIStore(r)
    \/ OpenAIRespond(r)
    \/ OpenAIStreamStore(r)

Next ==
    \/ Begin
    \/ Create
    \/ \E r \in Serving : Upstream(r, Responses)
    \/ \E r \in Serving, events \in StreamEvents : StreamSend(r, events)
    \/ \E r \in Serving : Finish(r)
    \/ Accepting(MaxTurns) /\ Reset

Spec == Init /\ [][Next]_vars

(***************************************************************************)
(* Claims on the configuration of the upstream calls (checked under Spec). *)
(***************************************************************************)
HasTools(config) == config.GoogleSearch \/ config.FunctionDeclarations # <<>>
HasCache(config) == config.CachedContent # ""
IsChatCall(r) == h[r].kind = "chat" /\ obs[r].called

\* C1: no upstream call of any adapter carries a cache reference together
\* with a search tool or function declarations, and a /chat call carries a
\* cache reference only when use_search and use_agentic are both false.
C1_CacheExcludesTools ==
    \A r \in Req :
        obs[r].called =>
            /\ ~(HasCache(obs[r].call) /\ HasTools(obs[r].call))
            /\ (h[r].kind = "chat" /\ HasCache(obs[r].call)) =>
                   (~h[r].req.UseSearch /\ ~h[r].req.UseAgentic)

\* a /chat call whose eligibility decision named a cache, made with tools
\* and therefore without the cache
C1_Witness ==
    \E r \in Req :
        /\ IsChatCall(r)
        /\ h[r].activeCID # ""
        /\ h[r].req.UseAgentic
        /\ HasTools(obs[r].call) /\ ~HasCache(obs[r].call)

\* the family test of the claim: the requested model starts with the
\* cache-bound model without its trailing "-001"
SameFamily(model) == HasPrefix(model, TrimSuffix(cacheModel, <<"-", "001">>))
IsImageModel(model) == Contains(model, <<"image">>)

C8_OverrideAlwaysAttached ==
    \A r \in Req :
        (IsChatCall(r) /\ h[r].req.CacheID # "") =>
            obs[r].call.CachedContent = h[r].req.CacheID

\* C8 amended: with a cache override, the eligibility result is the
\* override whatever the flags, the active cache and the model are; it is
\* attached to the upstream call when use_search and use_agentic are both
\* false, and no cache reference is attached when either is true.
C8_OverrideIsEligibilityResult ==
    \A r \in Req :
        (h[r].kind = "chat" /\ h[r].pc # "idle" /\ h[r].req.CacheID # "") =>
            /\ h[r].activeCID = h[r].req.CacheID
            /\ obs[r].called =>
                 obs[r].call.CachedContent =
                    IF ~h[r].req.UseSearch /\ ~h[r].req.UseAgentic
                    THEN h[r].req.CacheID ELSE ""

\* the override attached for a model of another family than the active cache's
C8_Witness ==
    \E r \in Req :
        /\ IsChatCall(r) /\ h[r].req.CacheID = OverrideCache
        /\ cacheName = ServerCache /\ h[r].req.Model = Pro15
        /\ obs[r].call.CachedContent = OverrideCache

\* C9: in any upstream call at most one of the cache reference, the search
\* tool and the file tools is active.
C9_AtMostOneOfCacheSearchTools ==
    \A r \in Req :
        obs[r].called =>
            Cardinality({x \in {"cache", "search", "files"} :
                            \/ x = "cache" /\ HasCache(obs[r].call)
                            \/ x = "search" /\ obs[r].call.GoogleSearch
                            \/ x = "files" /\ obs[r].call.FunctionDeclarations # <<>>}) <= 1

(***************************************************************************)
(* SpecLoop: one turn of each adapter that resolves tools, in clean mode,   *)
(* against every script of upstream answers.                               *)
(***************************************************************************)
ReadSibling == Call("read_file", Rel(<<DotDot, <<"proj", "2">>, <<"secret">>>>))
LoopCalls == <<WriteX, ReadSibling, Call("delete_file", Rel(<< <<"out">> >>)),
               Call("list_files", Rel(<<>>))>>

LoopChatRaws ==
    [SessionID : {""}, Model : {Flash}, Message : {<<"m1">>}, CacheID : {""},
     UseSearch : {FALSE}, UseAgentic : {TRUE}]

LoopResponses ==
    {ErrResp("upstream unavailable"), NoCandidates(NoUsage),
     Plain(Hi, 0, Usage(2, 1)), Plain(<<>>, 0, Usage(2, 1)),
     Plain(<<" ", "h", "i", " ">>, 0, Usage(2, 1)), Plain(<<" ">>, 1, Usage(2, 1))}
    \cup {WithCalls(SubSeq(LoopCalls, 1, n), Usage(2, 1)) :
            n \in 1..(IF MaxCalls < Len(LoopCalls) THEN MaxCalls ELSE Len(LoopCalls))}
    \cup {WithCalls(<<LoopCalls[3]>>, Usage(2, 1))}

InitLoop == Init /\ cacheName = "" /\ cacheModel = Flash

BeginLoop ==
    \E r \in Serving :
        \/ \E raw \in LoopChatRaws : turns = <<>> /\ ChatBegin(r, raw)
        \/ \E raw \in OpenAIRaws : turns = <<>> /\ OpenAIBegin(r, raw)
        \/ \E raw \in OpenAIRaws : turns = <<>> /\ OpenAIStreamBegin(r, raw)

CreateLoop ==
    \E r \in Serving, err \in Errs :
        \/ ChatCreate(r, err)
        \/ OpenAICreate(r, err)
        \/ OpenAIStreamCreate(r, err)

NextLoop ==
    \/ BeginLoop
    \/ CreateLoop
    \/ \E r \in Serving : Upstream(r, LoopResponses)
    \/ \E r \in Serving : Finish(r)

SpecLoop == InitLoop /\ [][NextLoop]_vars

\* the upstream answered every submission but the last with function calls
\* and the last with a plain answer
Scripted(r) ==
    LET recv == obs[r].recv
    IN  /\ Len(recv) >= 1
        /\ \A i \in 1..(Len(recv) - 1) : Len(FunctionCalls(recv[i])) > 0
        /\ ~IsErr(recv[Len(recv)])
        /\ Len(FunctionCalls(recv[Len(recv)])) = 0

PlainAnswer(r) == Text(obs[r].recv[Len(obs[r].recv)])

\* C2: in /chat and in the buffered OpenAI adapter, when the upstream has
\* answered the first K submissions of a turn with function calls and the
\* (K+1)-th with a plain answer, the loop has performed exactly K rounds and
\* K+1 submissions, it submits nothing more, its result is that plain
\* answer, and the response carries it (trimmed by /chat, when not blank).
C2_KRoundsThenPlainAnswer ==
    \A r \in Req :
        (h[r].kind \in {"chat", "openai"} /\ Scripted(r)) =>
            /\ obs[r].rounds = Len(obs[r].recv) - 1
            /\ obs[r].submissions = Len(obs[r].recv)
            /\ h[r].pc \in {"store", "storeCost", "respond", "done"}
            /\ h[r].pc = "store" => h[r].finalResponse = PlainAnswer(r)
            /\ (h[r].pc = "done" /\ TrimSpace(PlainAnswer(r)) # <<>>) =>
                   /\ h[r].out.status = "200"
                   /\ h[r].out.Text = IF h[r].kind = "chat"
                                      THEN TrimSpace(PlainAnswer(r))
                                      ELSE PlainAnswer(r)

\* a buffered OpenAI turn answered after two rounds, the first of two calls
C2_Witness ==
    \E r \in Req :
        /\ h[r].kind = "openai" /\ Scripted(r) /\ h[r].pc = "done"
        /\ obs[r].rounds = 2 /\ obs[r].submissions = 3
        /\ Len(FunctionCalls(obs[r].recv[1])) = 2
        /\ h[r].out.Text = Hi

\* C3 as stated, for the cap MaxRounds - 1: no turn performs more
\* tool-resolution rounds than the cap; a turn whose every submission was
\* answered with function calls ends with an error instead.
C3_RoundsCapped ==
    \A r \in Req : obs[r].rounds <= MaxRounds - 1

\* the client has the turn's final answer
FinalAnswerEmitted(r) ==
    \/ h[r].kind \in {"chat", "openai"} /\ h[r].out.status = "200"
    \/ h[r].kind = "openai-stream" /\
         \E i \in 1..Len(h[r].out.frames) : h[r].out.frames[i] = DoneFrame

\* C4 as stated: in /chat and both OpenAI adapters, no final answer is
\* emitted while a function call returned by the upstream is unresolved.
C4_NoAnswerWhileUnresolved ==
    \A r \in Req : FinalAnswerEmitted(r) => obs[r].unresolved = 0

\* C10 as stated: every finished response of the OpenAI streaming adapter
\* holds the [DONE] frame exactly once, after every other frame.
C10_DoneExactlyOnceAndLast ==
    \A r \in Req :
        (h[r].kind = "openai-stream" /\ h[r].pc = "done") =>
            LET frames == h[r].out.frames
            IN  /\ Cardinality({i \in 1..Len(frames) : frames[i] = DoneFrame}) = 1
                /\ frames[Len(frames)] = DoneFrame

(***************************************************************************)
(* SpecSeq: /chat turns and resets on two sessions, one after the other.   *)
(***************************************************************************)
SeqChatRaws ==
    [SessionID : {"", "s1"}, Model : {Flash}, Message : {<<>>, <<"m1">>}, CacheID : {""},
     UseSearch : {FALSE}, UseAgentic : {FALSE}]

SeqResponses ==
    {ErrResp("upstream unavailable"), Plain(Hi, 0, Usage(2, 1)), Plain(<<>>, 0, Usage(2, 1)),
     WithCalls(<<WriteX>>, Usage(2, 1))}

NextSeq ==
    \/ \E r \in Serving, raw \in SeqChatRaws : Accepting(SeqTurns) /\ ChatBegin(r, raw)
    \/ \E r \in Serving, err \in Errs : ChatCreate(r, err)
    \/ \E r \in Serving, resp \in SeqResponses, modelKey \in DOMAIN modelCosts \cup {NoKey} :
          \/ ChatSend(r, resp, modelKey)
          \/ ChatSendTools(r, resp, modelKey)
    \/ \E r \in Serving : ChatStore(r) \/ ChatStoreCost(r) \/ ChatRespond(r)
    \/ Accepting(SeqTurns) /\ (\A r \in Req : Free(r)) /\ Reset

SpecSeq == InitLoop /\ [][NextSeq]_vars

\* the /chat turns stored on session sid since the last reset, in request order
RECURSIVE StoredSince(_, _)
StoredSince(sid, n) ==
    IF n = 0 \/ turns[n].kind = "reset" THEN <<>>
    ELSE StoredSince(sid, n - 1) \o
         (IF turns[n].kind = "chat" /\ turns[n].stored /\ turns[n].SessionID = sid
          THEN <<turns[n]>> ELSE <<>>)

\* a successful turn without tools: one submission, answered without calls
ToolFree(turn) == Len(turn.answers) = 1 /\ Len(FunctionCalls(turn.answers[1])) = 0

\* the user/model pair of such a turn ("Hello" stands for an empty message)
PairOf(turn) ==
    <<UserTurn(IF turn.Message = <<>> THEN <<"Hello">> ELSE turn.Message),
      ModelTurn(turn.answers[1])>>

RECURSIVE PairsOf(_)
PairsOf(ts) == IF ts = <<>> THEN <<>> ELSE PairOf(Head(ts)) \o PairsOf(Tail(ts))

\* C6: with the requests on a session served one after the other, after N
\* successful tool-free /chat turns on it the stored history is exactly the
\* N user/model pairs of those turns in request order: 2N turns, none
\* dropped or duplicated.
C6_HistoryIsThePairsInOrder ==
    \A sid \in DOMAIN sessions :
        LET ts == StoredSince(sid, Len(turns))
        IN  (\A i \in 1..Len(ts) : ToolFree(ts[i])) =>
                /\ Len(sessions[sid]) = 2 * Len(ts)
                /\ sessions[sid] = PairsOf(ts)

\* two tool-free turns stored on one session, with different messages
C6_Witness ==
    \E sid \in DOMAIN sessions :
        LET ts == StoredSince(sid, Len(turns))
        IN  /\ Len(ts) = 2 /\ ToolFree(ts[1]) /\ ToolFree(ts[2])
            /\ ts[1].Message # ts[2].Message
            /\ Len(sessions[sid]) = 4

(***************************************************************************)
(* SpecTools: one tool execution, for every tool name and path.            *)
(***************************************************************************)
PathSegs == {Dot, DotDot, <<"proj">>, <<"proj", "2">>, <<"x">>}

RECURSIVE SegSeqs(_)
SegSeqs(n) ==
    IF n = 0 THEN {<<>>}
    ELSE SegSeqs(n - 1) \cup {Append(p, s) : p \in SegSeqs(n - 1), s \in PathSegs}

ToolPaths == [abs : BOOLEAN, segs : SegSeqs(MaxSegs)]
ToolNames == {"list_files", "read_file", "write_file", "delete_file"}

NextTools ==
    \E name \in ToolNames, path \in ToolPaths :
        turns = <<>> /\ ToolRun(Call(name, path))

SpecTools == InitLoop /\ [][NextTools]_vars

\* the root directory itself or a descendant of it, segment by segment
WithinRoot(path) ==
    /\ path.abs
    /\ Len(path.segs) >= Len(projectRoot.segs)
    /\ SubSeq(path.segs, 1, Len(projectRoot.segs)) = projectRoot.segs

\* C5 as stated: a list_files, read_file or write_file call whose resolved
\* path is neither the project root nor a descendant of it returns the
\* access-denied result and performs no file-system operation.
C5_OutsideRootIsDenied ==
    \A run \in toolRuns :
        (run.call.Name \in {"list_files", "read_file", "write_file"}
            /\ ~WithinRoot(Join(projectRoot, run.call.path))) =>
                run.result = AccessDenied /\ run.ops = {}

(***************************************************************************)
(* Claims on failures and on the text returned.                            *)
(***************************************************************************)
\* the request of slot r is the latest one accepted
Latest(r) == obs[r].turn = Len(turns)

\* C11: a /chat request whose chat creation or first submission failed has
\* ended with status 500 and the upstream's error message, after at most
\* one submission; its history was not stored, and the session's entry and
\* the running total are as they were when the request was accepted.
C11_EarlyFailureIsFatalAndTraceless ==
    \A r \in Req :
        h[r].kind = "chat" =>
            /\ (Len(obs[r].recv) = 1 /\ IsErr(obs[r].recv[1])) =>
                   /\ h[r].pc = "done" /\ h[r].out.status = "500"
                   /\ h[r].out.Text = <<obs[r].recv[1].err>>
                   /\ obs[r].submissions = 1
            /\ (h[r].pc = "done" /\ obs[r].submissions = 0) =>
                   /\ h[r].out.status = "500"
                   /\ \E err \in Errs \ {""} :
                         h[r].out.Text = <<"Failed to create chat: ", err>>
            /\ (h[r].pc = "done" /\ h[r].out.status = "500" /\ Latest(r)) =>
                   /\ ~turns[obs[r].turn].stored
                   /\ SessionGet(h[r].req.SessionID) = h[r].history
                   /\ totalCost = obs[r].totalAtBegin

\* a first submission that failed on a session that holds an earlier turn,
\* with a running total above zero
C11_Witness ==
    \E r \in Req :
        /\ h[r].kind = "chat" /\ h[r].pc = "done" /\ h[r].out.status = "500"
        /\ Len(obs[r].recv) = 1 /\ IsErr(obs[r].recv[1])
        /\ Latest(r)
        /\ Len(h[r].history) = 2 /\ totalCost > 0

\* an upstream submission failed after at least one tool-resolution round
FailedAfterRound(r) ==
    /\ Len(obs[r].recv) >= 2
    /\ IsErr(obs[r].recv[Len(obs[r].recv)])

\* the names of the function calls of the responses, in order
RECURSIVE CallNames(_)
CallNames(recv) ==
    IF recv = <<>> THEN <<>>
    ELSE [i \in 1..Len(FunctionCalls(Head(recv))) |-> FunctionCalls(Head(recv))[i].Name]
         \o CallNames(Tail(recv))

\* the totals the costs of the responses can add up to, over the keys the
\* range over the price map can stop at
RECURSIVE ReceivedCosts(_, _)
ReceivedCosts(model, recv) ==
    IF recv = <<>> THEN {0}
    ELSE IF IsErr(Head(recv)) THEN ReceivedCosts(model, Tail(recv))
    ELSE {calculateCost(model, Head(recv), modelKey) + rest :
             modelKey \in RangeStops(model), rest \in ReceivedCosts(model, Tail(recv))}

\* C12: a /chat request one of whose submissions failed after at least one
\* tool-resolution round goes on to the store and ends with status 200, the
\* text "Error after tool execution: <error>", the names of the tools
\* executed, and the cost of the responses received, which is added to the
\* running total; its history is stored.
C12_LateFailureIsDegradedText ==
    \A r \in Req :
        (h[r].kind = "chat" /\ FailedAfterRound(r)) =>
            LET err == obs[r].recv[Len(obs[r].recv)].err
                sid == h[r].req.SessionID
            IN  /\ h[r].pc \in {"store", "storeCost", "respond", "done"}
                /\ h[r].pc \in {"respond", "done"} =>
                       /\ turns[obs[r].turn].stored
                       /\ sessions[sid] = History(h[r].chat)
                       /\ Len(sessions[sid]) >= Len(h[r].history) + 2
                       /\ h[r].requestCost \in ReceivedCosts(h[r].req.Model, obs[r].recv)
                       /\ totalCost = obs[r].totalAtBegin + h[r].requestCost
                /\ h[r].pc = "done" =>
                       /\ h[r].out.status = "200"
                       /\ h[r].out.Text = <<"Error after tool execution: ", err>>
                       /\ h[r].out.ToolCalls =
                              [i \in 1..Len(CallNames(obs[r].recv)) |->
                                  <<"Executed: ", CallNames(obs[r].recv)[i]>>]
                       /\ h[r].out.ToolCalls # <<>>
                       /\ h[r].out.Cost = h[r].requestCost

\* a /chat turn answered after a round of two calls whose results could
\* not be submitted, at a cost above zero
C12_Witness ==
    \E r \in Req :
        /\ h[r].kind = "chat" /\ FailedAfterRound(r) /\ h[r].pc = "done"
        /\ Len(h[r].out.ToolCalls) = 2
        /\ h[r].out.Cost > 0 /\ totalCost = h[r].out.Cost

\* C13 as stated: a buffered OpenAI request one of whose submissions failed
\* after at least one tool-resolution round completes: its history is
\* stored and the client receives a chat.completion response (status 200)
\* whose content is "Error after tool execution: <error>".
C13_LateFailureCompletes ==
    \A r \in Req :
        (h[r].kind = "openai" /\ FailedAfterRound(r) /\ h[r].pc = "done") =>
            /\ turns[obs[r].turn].stored
            /\ h[r].out.status = "200"
            /\ h[r].out.Text =
                   <<"Error after tool execution: ", obs[r].recv[Len(obs[r].recv)].err>>

\* the outcomes of a finished request
HasPayload(r) ==
    \/ /\ h[r].kind \in {"chat", "openai"} /\ h[r].out.status = "200"
       /\ (TrimSpace(h[r].out.Text) # <<>> \/ h[r].out.Images > 0)
    \/ /\ h[r].kind = "openai-stream"
       /\ \E i \in 1..Len(h[r].out.frames) : h[r].out.frames[i].type = "content"

HasError(r) ==
    \/ /\ h[r].kind \in {"chat", "openai"} /\ h[r].out.status \in {"400", "500"}
       /\ h[r].out.Text # <<>>
    \/ /\ h[r].kind = "openai-stream"
       /\ \E i \in 1..Len(h[r].out.frames) : h[r].out.frames[i].type = "error"

\* C14 as stated: every finished request of /chat and of the two OpenAI
\* adapters has delivered either a payload that is not empty (text, image
\* or labelled warning) or an explicit error, never both and never neither.
C14_PayloadOrError ==
    \A r \in Req :
        (h[r].kind \in {"chat", "openai", "openai-stream"} /\ h[r].pc = "done") =>
            HasPayload(r) # HasError(r)

\* what the loop of /chat was left with: the last answer's text, or the
\* label and the error of a failed submission; and the last answer's images
LoopText(recv) ==
    LET last == recv[Len(recv)]
    IN  IF IsErr(last) THEN <<"Error after tool execution: ", last.err>> ELSE Text(last)

LoopImages(recv) ==
    LET last == recv[Len(recv)]
    IN  IF ~IsErr(last) /\ last.Candidates /\ Len(FunctionCalls(last)) = 0
        THEN last.images ELSE 0

\* C15: the text of a successful /chat response is never empty: it is the
\* trimmed text the loop was left with when that is not empty; else the
\* "Executed n tool(s)" summary when n > 0 calls were dispatched in the
\* turn; else the "Generated m image(s)" summary when the answer held m > 0
\* images; else the system warning.
C15_ChatTextNeverEmpty ==
    \A r \in Req :
        (h[r].kind = "chat" /\ h[r].pc = "done" /\ h[r].out.status = "200") =>
            LET text == TrimSpace(LoopText(obs[r].recv))
                n == Len(CallNames(obs[r].recv))
                m == LoopImages(obs[r].recv)
            IN  /\ h[r].out.Text # <<>>
                /\ h[r].out.Text =
                     IF text # <<>> THEN text
                     ELSE IF n > 0
                     THEN <<"[Executed ">> \o Itoa(n)
                              \o <<" tool(s) but model provided no summary.]">>
                     ELSE IF m > 0
                     THEN <<"[Generated ">> \o Itoa(m) \o <<" image(s)]">>
                     ELSE <<"[System Warning: Model returned empty content. This may be a safety block or API glitch.]">>

\* two calls dispatched, then an answer of blank text with an image: the
\* text returned is the summary of the two tools
C15_Witness ==
    \E r \in Req :
        /\ h[r].kind = "chat" /\ h[r].pc = "done" /\ h[r].out.status = "200"
        /\ Len(CallNames(obs[r].recv)) = 2
        /\ LoopImages(obs[r].recv) = 1
        /\ h[r].out.Text = <<"[Executed ", "2", " tool(s) but model provided no summary.]">>

(***************************************************************************)
(* SpecConc: /chat requests and status requests served concurrently, in    *)
(* both slots.                                                             *)
(***************************************************************************)
\* every request carries a message of its own: the n-th one carries "m", n
ConcChatRaws ==
    [SessionID : {"s1"}, Model : {Flash}, Message : {<<"m">> \o Itoa(Len(turns) + 1)},
     CacheID : {""}, UseSearch : {FALSE}, UseAgentic : {TRUE}]

ConcResponses ==
    {ErrResp("upstream unavailable"), Plain(Hi, 0, Usage(2, 1)),
     WithCalls(<<WriteX>>, Usage(2, 1))}

\* a request is taken by the lowest idle slot: the slots are interchangeable
Takes(r) == Accepting(ConcTurns) /\ \A q \in Req : q < r => ~Free(q)

NextConc ==
    \/ \E r \in Req, raw \in ConcChatRaws : Takes(r) /\ ChatBegin(r, raw)
    \/ \E r \in Req : Takes(r) /\ Status(r)
    \/ \E r \in Req, err \in Errs : ChatCreate(r, err)
    \/ \E r \in Req, resp \in ConcResponses, modelKey \in DOMAIN modelCosts \cup {NoKey} :
          \/ ChatSend(r, resp, modelKey)
          \/ ChatSendTools(r, resp, modelKey)
    \/ \E r \in Req : ChatStore(r) \/ ChatStoreCost(r) \/ ChatRespond(r)

SpecConc == InitLoop /\ [][NextConc]_vars

\* the step in which the handler of slot r reads the running total (and,
\* for the status, the session store and the cache state) for its response
ReadsForResponse(r) ==
    /\ h'[r] # h[r]
    /\ h'[r].kind \in {"chat", "status"}
    /\ h'[r].pc = "done" /\ h'[r].out.status = "200"

\* C16 as stated: every read of the session store, the running total and
\* the cache state by a handler is made under mu, so none is made while
\* another handler is inside its critical section, writing them.
C16_ReadsUnderLock ==
    [][\A r \in Req : ReadsForResponse(r) => mu = 0]_vars

\* the handler of slot r has an upstream call in progress (chat creation,
\* a submission with the tool executions that precede the next one, a
\* stream read)
AwaitsUpstream(r) == h[r].pc \in {"create", "send", "sendTools"}

\* C17: mu is held by no handler that has an upstream call or a tool
\* execution in progress: at every point between two steps of the handlers
\* it is free, or held by a /chat handler between its write of the history
\* and its write of the total.
C17_NoLockAcrossUpstreamCalls ==
    /\ \A r \in Req : AwaitsUpstream(r) => mu # r
    /\ mu # 0 => (h[mu].kind = "chat" /\ h[mu].pc = "storeCost")

\* the streaming OpenAI handler, its tools executed and their results being
\* submitted, after it read the history under mu: mu is free
C17_Witness ==
    \E r \in Req :
        /\ h[r].kind = "openai-stream" /\ h[r].pc = "sendTools"
        /\ obs[r].rounds = 1
        /\ mu = 0

\* the sum of the costs of the first n requests whose store step has added
\* its cost to the total
RECURSIVE AddedCosts(_)
AddedCosts(n) ==
    IF n = 0 THEN 0
    ELSE AddedCosts(n - 1) +
         (IF /\ turns[n].stored
             /\ ~\E r \in Req : obs[r].turn = n /\ h[r].pc = "storeCost"
          THEN turns[n].cost ELSE 0)

\* C18: whatever the interleaving of the /chat requests, the running total
\* is its initial value, 0, plus the costs of exactly the requests whose
\* store step has added its cost: none lost, none added twice.
C18_TotalIsSumOfStoredCosts ==
    totalCost = AddedCosts(Len(turns))

\* two overlapping /chat requests, both past the store, each at a cost
\* above zero: the second began before the first had stored
C18_Witness ==
    /\ \A r \in Req : h[r].kind = "chat" /\ h[r].pc \in {"respond", "done"}
                      /\ h[r].out.status # "500" /\ h[r].requestCost > 0
                      /\ obs[r].totalAtBegin = 0
    /\ totalCost = h[1].requestCost + h[2].requestCost

\* the request in slot r has written its history to the store
HasStored(r) == h[r].kind = "chat" /\ obs[r].turn # 0 /\ turns[obs[r].turn].stored

\* two turns on one session that both read the same prior history and have
\* both written: neither saw the other's write
Overlapped(a, b) ==
    /\ a # b /\ HasStored(a) /\ HasStored(b)
    /\ h[a].req.SessionID = h[b].req.SessionID
    /\ h[a].history = h[b].history

\* the upstream's successful answers of a turn, in order
RECURSIVE Answered(_)
Answered(recv) ==
    IF recv = <<>> THEN <<>>
    ELSE (IF IsErr(recv[1]) THEN <<>> ELSE <<recv[1]>>) \o Answered(Tail(recv))

\* `tail` is what the turn in slot r alone contributes to a history: its
\* user message and the model's answer, then one pair of submitted results
\* and answer per round
IsOwnTurns(r, tail) ==
    LET ans == Answered(obs[r].recv)
    IN  /\ Len(tail) = 2 * Len(ans) /\ Len(ans) >= 1
        /\ tail[1] = UserTurn(h[r].req.Message)
        /\ \A k \in 1..Len(ans) :
              /\ tail[2 * k] = ModelTurn(ans[k])
              /\ k > 1 => (tail[2 * k - 1].Role = "user" /\ tail[2 * k - 1].results # <<>>)

\* C19: when two turns on one session id overlap, the stored history once
\* both have written is the prior history followed by the turns of the one
\* that wrote last, and nothing else; the user turn of the other is absent.
C19_LastWriterWins ==
    \A w, l \in Req :
        (Overlapped(w, l) /\ turns[obs[w].turn].storeSeq > turns[obs[l].turn].storeSeq) =>
            LET sid == h[w].req.SessionID
                prior == h[w].history
            IN  /\ sid \in DOMAIN sessions
                /\ Len(sessions[sid]) > Len(prior)
                /\ SubSeq(sessions[sid], 1, Len(prior)) = prior
                /\ IsOwnTurns(w, SubSeq(sessions[sid], Len(prior) + 1, Len(sessions[sid])))
                /\ \A i \in 1..Len(sessions[sid]) : sessions[sid][i] # UserTurn(h[l].req.Message)

\* both overlapping turns are done; the one that wrote first had resolved a
\* round of tools, so its history was the longer one, and it is gone
C19_Witness ==
    \E w, l \in Req :
        /\ Overlapped(w, l) /\ h[w].pc = "done" /\ h[l].pc = "done"
        /\ turns[obs[w].turn].storeSeq > turns[obs[l].turn].storeSeq
        /\ obs[l].rounds = 1 /\ obs[w].rounds = 0
        /\ Len(sessions[h[w].req.SessionID]) = 2

\* the request in slot r is finished and went through its store step, and
\* since it began the running total grew by the cost of every response it
\* received
CostsAdded(r) ==
    (h[r].pc = "done" /\ obs[r].turn # 0 /\ turns[obs[r].turn].stored) =>
        totalCost - obs[r].totalAtBegin \in ReceivedCosts(h[r].chat.model, obs[r].recv)

\* C20: whichever adapter started the turn (/chat, OpenAI buffered, OpenAI
\* streaming), the cost of every upstream response received in the turn has
\* been added to the running total when the turn is finished.
C20_EveryResponseCosted ==
    \A r \in Req : h[r].kind \in {"chat", "openai", "openai-stream"} => CostsAdded(r)

(***************************************************************************)
(* SpecCost: one /chat turn on each kind of model name the price table     *)
(* distinguishes, against answers with and without usage data.             *)
(***************************************************************************)
CostChatRaws ==
    [SessionID : {""}, Model : {Flash, Flash001, FlashExp, Flash8b15, Pro15, Gpt4},
     Message : {<<"m1">>}, CacheID : {""}, UseSearch : {FALSE}, UseAgentic : {TRUE}]

CostResponses ==
    {ErrResp("upstream unavailable"), Plain(Hi, 0, Usage(2, 1)), Plain(Hi, 0, NoUsage),
     WithCalls(<<WriteX>>, Usage(3, 2))}

NextCost ==
    \/ \E r \in Serving, raw \in CostChatRaws : turns = <<>> /\ ChatBegin(r, raw)
    \/ \E r \in Serving, err \in Errs : ChatCreate(r, err)
    \/ \E r \in Serving, resp \in CostResponses, modelKey \in DOMAIN modelCosts \cup {NoKey} :
          \/ ChatSend(r, resp, modelKey)
          \/ ChatSendTools(r, resp, modelKey)
    \/ \E r \in Serving : ChatStore(r) \/ ChatStoreCost(r) \/ ChatRespond(r)

SpecCost == InitLoop /\ [][NextCost]_vars

\* the longest key of the price table that equals or is a prefix of the name
LongestKey(modelName) ==
    IF MatchingKeys(modelName) = {} THEN NoKey
    ELSE CHOOSE k \in MatchingKeys(modelName) :
            \A k2 \in MatchingKeys(modelName) : Len(k2) <= Len(k)

\* tokens/1,000,000 x price of the entry under `key`, in units of 1e-10 USD
PriceOf(key, resp) ==
    IF key = NoKey \/ resp.UsageMetadata = NoUsage THEN 0
    ELSE resp.UsageMetadata.PromptTokenCount * modelCosts[key].In
         + resp.UsageMetadata.CandidatesTokenCount * modelCosts[key].Out

RECURSIVE SumPrices(_, _)
SumPrices(key, recv) ==
    IF recv = <<>> THEN 0
    ELSE (IF IsErr(Head(recv)) THEN 0 ELSE PriceOf(key, Head(recv))) + SumPrices(key, Tail(recv))

\* C21: the cost of a request is a function of the model name and the
\* usage alone, the price being that of the longest key of the table that
\* equals or is a prefix of the model name.
C21_PricedByLongestKey ==
    \A r \in Req :
        h[r].kind = "chat" =>
            h[r].requestCost = SumPrices(LongestKey(h[r].req.Model), obs[r].recv)

\* the sums of the prices of the responses received, each priced by an
\* entry that matches the model name (zero when none does)
RECURSIVE PricedSums(_, _)
PricedSums(model, recv) ==
    IF recv = <<>> THEN {0}
    ELSE LET first == IF IsErr(Head(recv)) THEN {0}
                      ELSE {PriceOf(key, Head(recv)) : key \in RangeStops(model)}
         IN  {p + rest : p \in first, rest \in PricedSums(model, Tail(recv))}

\* C22: the cost of a /chat request is the sum over the responses received
\* in the turn (K+1 of them after K tool rounds) of prompt tokens x in-price
\* plus candidate tokens x out-price of the matched entry, a response
\* without usage data or on a model without entry counting zero; it is the
\* cost the response reports.
C22_CostIsSumOverResponses ==
    \A r \in Req :
        h[r].kind = "chat" =>
            /\ h[r].requestCost \in PricedSums(h[r].req.Model, obs[r].recv)
            /\ (MatchingKeys(h[r].req.Model) = {}) => h[r].requestCost = 0
            /\ (h[r].pc = "done" /\ h[r].out.status = "200") =>
                  /\ h[r].out.Cost = h[r].requestCost
                  /\ Len(obs[r].recv) = obs[r].rounds + 1

\* one tool round on gemini-1.5-pro (1.25 in, 5.00 out): the call response
\* of 3 and 2 tokens and the final answer of 2 and 1 tokens cost
\* (3 + 2) x 1.25 + (2 + 1) x 5.00 per million
C22_Witness ==
    \E r \in Req :
        /\ h[r].kind = "chat" /\ h[r].pc = "done" /\ h[r].out.status = "200"
        /\ h[r].req.Model = Pro15
        /\ obs[r].rounds = 1 /\ Len(obs[r].recv) = 2
        /\ obs[r].recv[2].UsageMetadata = Usage(2, 1)
        /\ h[r].out.Cost = 5 * 12500 + 3 * 50000

\* `parts` answers `calls`: as many parts as calls, the i-th with the name
\* of the i-th call and the result its execution gave
Answers(parts, calls) ==
    /\ Len(parts) = Len(calls)
    /\ \A i \in 1..Len(calls) :
          /\ parts[i].Name = calls[i].Name
          /\ \E run \in toolRuns : run.call = calls[i] /\ run.result = parts[i].Response

\* the turns the request in slot r has recorded in its chat so far
OwnHistory(r) ==
    IF h[r].chat = NoChat THEN <<>>
    ELSE SubSeq(History(h[r].chat), Len(h[r].history) + 1, Len(History(h[r].chat)))

\* C23: in /chat and the buffered OpenAI adapter, every response carrying n
\* function calls is followed by exactly one message of exactly n function
\* results, the i-th for the i-th call; no call is answered twice, skipped
\* or answered in a message of its own.
C23_OneBundlePerCallResponse ==
    \A r \in Req :
        (h[r].kind \in {"chat", "openai"} /\ obs[r].called) =>
            LET own == OwnHistory(r)
                last == obs[r].recv[Len(obs[r].recv)]
            IN  /\ obs[r].submissions = Len(obs[r].recv)
                /\ obs[r].rounds =
                      Cardinality({i \in 1..Len(obs[r].recv) : FunctionCalls(obs[r].recv[i]) # <<>>})
                /\ h[r].pc = "sendTools" =>
                      /\ FunctionCalls(last) # <<>>
                      /\ Answers(h[r].funcResponses, FunctionCalls(last))
                      /\ obs[r].unresolved = Len(FunctionCalls(last))
                /\ h[r].pc # "sendTools" => obs[r].unresolved = 0
                /\ \A j \in 1..Len(own) :
                      /\ (own[j].Role = "model" /\ own[j].calls # <<>> /\ j < Len(own)) =>
                            Answers(own[j + 1].results, own[j].calls)
                      /\ own[j].results # <<>> =>
                            (j > 1 /\ own[j - 1].Role = "model" /\ own[j - 1].calls # <<>>)

\* a finished buffered OpenAI turn whose first answer carried two calls,
\* write_file then read_file, answered by one message of two results
C23_Witness ==
    \E r \in Req :
        /\ h[r].kind = "openai" /\ h[r].pc = "done" /\ obs[r].rounds = 1
        /\ Len(OwnHistory(r)) = 4
        /\ Len(OwnHistory(r)[2].calls) = 2
        /\ OwnHistory(r)[3].results[1].Name = "write_file"
        /\ OwnHistory(r)[3].results[2].Name = "read_file"
        /\ OwnHistory(r)[3].results[1].Response = FromFileSystem

KnownTools == {"list_files", "read_file", "write_file"}

\* the part answering a call of an unknown tool is the error result
UnknownAnswered(parts, calls) ==
    \A i \in 1..Len(calls) :
        calls[i].Name \notin KnownTools =>
            (i <= Len(parts) /\ parts[i] = [Name |-> calls[i].Name, Response |-> UnknownTool])

\* C24: a function call whose name is not list_files, read_file or
\* write_file performs no file operation and gets the result "unknown tool",
\* which is submitted to the model with the other results of its response;
\* the turn goes on to the submission instead of ending there.
C24_UnknownToolIsAnError ==
    /\ \A run \in toolRuns :
          run.call.Name \notin KnownTools => (run.result = UnknownTool /\ run.ops = {})
    /\ \A r \in Req :
          (h[r].kind \in {"chat", "openai"} /\ obs[r].called) =>
              LET own == OwnHistory(r)
                  last == obs[r].recv[Len(obs[r].recv)]
              IN  /\ FunctionCalls(last) # <<>> =>
                        (h[r].pc = "sendTools" /\ UnknownAnswered(h[r].funcResponses, FunctionCalls(last)))
                  /\ \A j \in 1..Len(own) :
                        (own[j].Role = "model" /\ j < Len(own)) =>
                            UnknownAnswered(own[j + 1].results, own[j].calls)

\* a /chat turn that answered a delete_file call with the error result and
\* ended with the model's text, no file touched
C24_Witness ==
    \E r \in Req :
        /\ h[r].kind = "chat" /\ h[r].pc = "done" /\ h[r].out.status = "200"
        /\ h[r].out.Text = Hi
        /\ h[r].out.ToolCalls = <<toolLog("delete_file")>>
        /\ OwnHistory(r)[3].results = <<[Name |-> "delete_file", Response |-> UnknownTool]>>
        /\ \A run \in toolRuns : run.ops = {}

\* the model id the request in slot r asked for
Asked(r) == turns[obs[r].turn].Model

\* C25: an OpenAI-compatible request, buffered or streaming, is always
\* served: with the requested id verbatim when it has the "gemini-" prefix
\* and is not on the blocked list, and with the server's cache-bound or
\* default model in every other case.
C25_MappedAndServed ==
    \A r \in Req :
        (h[r].kind \in {"openai", "openai-stream"} /\ h[r].pc # "idle") =>
            LET verbatim == HasPrefix(Asked(r), <<"gemini", "-">>) /\ ~isBlockedModel(Asked(r))
                fallback == IF cacheModel = NoModel THEN DefaultModel ELSE cacheModel
            IN  /\ h[r].req # NoReq
                /\ h[r].req.Model = IF verbatim THEN Asked(r) ELSE fallback

\* the model id carries an experimental or preview marker
HasMarker(model) == isBlockedModel(model) \/ Contains(model, <<"preview">>)

\* C26: no adapter creates an upstream chat on a model id that carries an
\* experimental or preview marker.
C26_NoMarkedModelUpstream ==
    \A r \in Req : h[r].chat # NoChat => ~HasMarker(h[r].chat.model)

(***************************************************************************)
(* SpecMix: /chat, buffered and streaming OpenAI turns and resets, one     *)
(* after the other, each request with a message of its own; the upstream  *)
(* answers with a text or fails.                                           *)
(***************************************************************************)
MixMessage == <<"m">> \o Itoa(Len(turns) + 1)

MixChatRaws ==
    [SessionID : {"s1"}, Model : {Flash}, Message : {MixMessage}, CacheID : {""},
     UseSearch : {FALSE}, UseAgentic : {FALSE}]

MixOpenAIRaws ==
    [Model : {Gpt4}, Messages : {<< [Role |-> "user", Content |-> MixMessage] >>},
     Stream : BOOLEAN]

MixResponses == {ErrResp("upstream unavailable"), Plain(Hi, 0, Usage(2, 1))}

NextMix ==
    \/ \E r \in Serving, raw \in MixChatRaws : Accepting(MixTurns) /\ ChatBegin(r, raw)
    \/ \E r \in Serving, raw \in MixOpenAIRaws : Accepting(MixTurns) /\ OpenAIBegin(r, raw)
    \/ \E r \in Serving, raw \in MixOpenAIRaws : Accepting(MixTurns) /\ OpenAIStreamBegin(r, raw)
    \/ \E r \in Serving, err \in Errs :
          ChatCreate(r, err) \/ OpenAICreate(r, err) \/ OpenAIStreamCreate(r, err)
    \/ \E r \in Serving, resp \in MixResponses, modelKey \in DOMAIN modelCosts \cup {NoKey} :
          ChatSend(r, resp, modelKey)
    \/ \E r \in Serving, resp \in MixResponses : OpenAISend(r, resp) \/ OpenAIStreamSend(r, resp)
    \/ \E r \in Serving : Finish(r)
    \/ Accepting(MixTurns) /\ (\A r \in Req : Free(r)) /\ Reset

SpecMix == InitLoop /\ [][NextMix]_vars

OpenAIKinds == {"openai", "openai-stream"}

\* the earlier OpenAI turns, of either kind, stored since the last reset
\* before request n
EarlierOpenAI(n) ==
    {i \in 1..(n - 1) :
        /\ turns[i].kind \in OpenAIKinds /\ turns[i].stored
        /\ \A j \in i..n : turns[j].kind # "reset"}

\* C27: the OpenAI-compatible requests, buffered or streaming, share one
\* conversation: the prior history of each holds the user message of every
\* OpenAI turn stored before it (since the last reset), whichever of the two
\* handlers served that turn.
C27_OneSharedConversation ==
    \A r \in Req :
        (h[r].kind \in OpenAIKinds /\ h[r].pc # "idle" /\ h[r].req # NoReq) =>
            \A i \in EarlierOpenAI(obs[r].turn) :
                \E j \in 1..Len(h[r].history) : h[r].history[j] = UserTurn(turns[i].Message)

\* the first text part of the first user-role entry of the contents list
RECURSIVE FirstUserText(_)
FirstUserText(contents) ==
    IF contents = <<>> THEN <<>>
    ELSE IF /\ Head(contents).role = "user"
            /\ Len(Head(contents).parts) > 0
            /\ Head(contents).parts[1].isText
         THEN Head(contents).parts[1].text
         ELSE FirstUserText(Tail(contents))

\* C28: the passthrough adapter submits the first text part of the FIRST
\* user-role entry of the request's contents, whatever the later entries
\* hold.
C28_FirstUserEntrySubmitted ==
    \A r \in Req :
        (h[r].kind = "gemini-stream" /\ h[r].pc # "idle") =>
            h[r].req.Message = FirstUserText(turns[obs[r].turn].Contents)

\* C29: a passthrough call carries the server's active cache only when the
\* requested model is of the cache-bound model's family and is no
\* image-generation model; for any other model it carries no cache
\* reference unless the request names one itself.
C29_PassthroughCacheOnlyWhenCompatible ==
    \A r \in Req :
        (h[r].kind = "gemini-stream" /\ obs[r].called /\ h[r].req.CacheID = "") =>
            LET compatible == SameFamily(h[r].req.Model) /\ ~IsImageModel(h[r].req.Model)
            IN  obs[r].call.CachedContent = IF cacheName # "" /\ compatible THEN cacheName ELSE ""

\* the step is a reset
ResetStep == Len(turns') = Len(turns) + 1 /\ turns'[Len(turns')].kind = "reset"

\* in the state reached, the request in slot r is the one accepted right
\* after a reset
FirstAfterReset(r) ==
    /\ h'[r].pc # "idle" /\ h'[r].req # NoReq
    /\ obs'[r].turn > 1 /\ turns'[obs'[r].turn - 1].kind = "reset"

\* C30: a reset with no turn in flight empties the session store and
\* leaves the running total, the cache reference and the cache-bound model
\* as they were; the request accepted next, on whatever session id, runs
\* with no prior turns.
C30_ResetOnlyEmptiesStore ==
    [][/\ ResetStep => (sessions' = <<>> /\ UNCHANGED <<totalCost, cacheName, cacheModel>>)
       /\ \A r \in Req : FirstAfterReset(r) => h'[r].history = <<>>]_vars

\* a /chat turn that cost something and a buffered OpenAI turn were stored,
\* then the store was reset: the next buffered OpenAI request is sent with no
\* prior turns, the total still being the cost of the /chat turn
C30_Witness ==
    /\ Len(turns) = 4
    /\ turns[1].kind = "chat" /\ turns[1].stored /\ turns[1].cost > 0
    /\ turns[2].kind = "openai" /\ turns[2].stored
    /\ turns[3].kind = "reset"
    /\ h[1].kind = "openai" /\ h[1].pc = "send" /\ obs[1].turn = 4
    /\ History(h[1].chat) = <<>>
    /\ sessions = <<>>
    /\ totalCost = turns[1].cost

\* C31: in clean mode no cache reference exists, and the upstream call of a
\* request without cache override is the one a server that served nothing
\* before would make: no cache reference and no prior turns.
C31_CleanModeIsStateless ==
    /\ cacheName = ""
    /\ \A r \in Req :
          (h[r].kind = "chat" /\ h[r].chat # NoChat /\ h[r].req.CacheID = "") =>
              /\ h[r].chat.config.CachedContent = ""
              /\ h[r].history = <<>>

\* the values of the -model flag the server may have been started with:
\* the cache-bound model in the modes that record the flag there, any flag
\* value after a cache build the upstream rejected, which records nothing
FlagValues == IF cacheModel = NoModel THEN ModelFlags ELSE {cacheModel}

\* C32: an OpenAI-compatible request that names a non-Gemini model is served
\* with the model the server was configured with, the value of the -model
\* flag, in every startup mode.
C32_NonGeminiServedWithFlagModel ==
    \A r \in Req :
        (/\ h[r].kind \in OpenAIKinds /\ h[r].pc # "idle"
         /\ ~HasPrefix(Asked(r), <<"gemini", "-">>)) =>
            \A flag \in FlagValues : h[r].req.Model = flag

\* the upstream's responses of the turn that carried function calls
CallResponses(r) == {i \in 1..Len(obs[r].recv) : FunctionCalls(obs[r].recv[i]) # <<>>}

\* C33: a turn of the OpenAI streaming adapter that streamed its answer made
\* K+1 submissions for the K responses that carried function calls: the user
\* message, then one bundle of tool results per such response and nothing
\* else; the text streamed is the text of the response to the last of them.
C33_StreamSubmitsMessageThenBundles ==
    \A r \in Req :
        (h[r].kind = "openai-stream" /\ FinalAnswerEmitted(r)) =>
            LET own == OwnHistory(r)
            IN  /\ obs[r].submissions = Cardinality(CallResponses(r)) + 1
                /\ own[1] = UserTurn(turns[obs[r].turn].Message)
                /\ \A j \in 2..Len(own) : own[j].Role = "user" => own[j].results # <<>>
                /\ h[r].finalResponse = Text(obs[r].recv[Len(obs[r].recv)])

\* the tool is among the function declarations of the configuration
Declares(config, toolName) ==
    \E i \in 1..Len(config.FunctionDeclarations) : config.FunctionDeclarations[i] = toolName

\* C34: an agentic /chat call always declares write_file, and it declares
\* read_file and list_files whenever it carries no cache reference.
C34_ReadToolsUnlessCacheOnCall ==
    \A r \in Req :
        (IsChatCall(r) /\ h[r].req.UseAgentic) =>
            /\ Declares(obs[r].call, "write_file")
            /\ obs[r].call.CachedContent = "" =>
                  (Declares(obs[r].call, "read_file") /\ Declares(obs[r].call, "list_files"))

\* the results of `turn` answer the calls of `before` one-to-one, by name
\* and in order
Matches(turn, before) ==
    /\ before.Role = "model"
    /\ Len(before.calls) = Len(turn.results)
    /\ \A i \in 1..Len(turn.results) : turn.results[i].Name = before.calls[i].Name

\* C35: in every stored history, whichever adapter stored it, a turn that
\* carries function results comes right after a model turn whose function
\* calls match the results one-to-one by name and order.
C35_ResultsFollowTheirCalls ==
    \A sid \in DOMAIN sessions :
        \A j \in 1..Len(sessions[sid]) :
            sessions[sid][j].results # <<>> =>
                (j > 1 /\ Matches(sessions[sid][j], sessions[sid][j - 1]))

\* the history stored by a streaming turn that resolved a response of two
\* calls, write_file then read_file
C35_Witness ==
    /\ "openai-stream" \in DOMAIN sessions
    /\ Len(sessions["openai-stream"]) >= 3
    /\ Len(sessions["openai-stream"][2].calls) = 2
    /\ Len(sessions["openai-stream"][3].results) = 2
    /\ sessions["openai-stream"][3].results[2].Name = "read_file"

\* the sums of the prompt and of the candidate token counts over the
\* responses received
RECURSIVE SumTokens(_)
SumTokens(recv) ==
    IF recv = <<>> THEN [prompt |-> 0, candidates |-> 0]
    ELSE LET rest == SumTokens(Tail(recv))
             usage == Head(recv).UsageMetadata
         IN  IF IsErr(Head(recv)) \/ usage = NoUsage THEN rest
             ELSE [prompt |-> usage.PromptTokenCount + rest.prompt,
                   candidates |-> usage.CandidatesTokenCount + rest.candidates]

\* C36: the token counts a /chat response reports are the sums, over every
\* upstream response of the turn, of the prompt token counts and of the
\* candidate token counts.
C36_TokenCountsAreSums ==
    \A r \in Req :
        (h[r].kind = "chat" /\ h[r].pc = "done" /\ h[r].out.status = "200") =>
            /\ h[r].out.PromptTokens = SumTokens(obs[r].recv).prompt
            /\ h[r].out.ResponseTokens = SumTokens(obs[r].recv).candidates

\* the file-tool calls the /chat request in slot r received and dispatched
Executed(r) ==
    {c \in UNION {{FunctionCalls(obs[r].recv[i])[k] : k \in 1..Len(FunctionCalls(obs[r].recv[i]))} :
                    i \in 1..Len(obs[r].recv)} :
        c.Name \in KnownTools /\ runOf(c) \in toolRuns}

\* C37: a /chat request executes a file tool only if the configuration of
\* its upstream call declared that tool, whatever the upstream asks for.
C37_OnlyDeclaredToolsRun ==
    \A r \in Req :
        h[r].kind = "chat" => \A c \in Executed(r) : Declares(h[r].chat.config, c.Name)

(***************************************************************************)
(* SpecRace: /chat turns on one session, and resets that may arrive while  *)
(* a turn is in flight.                                                    *)
(***************************************************************************)
NextRace ==
    \/ \E r \in Serving, raw \in MixChatRaws : Accepting(RaceTurns) /\ ChatBegin(r, raw)
    \/ \E r \in Serving, err \in Errs : ChatCreate(r, err)
    \/ \E r \in Serving, resp \in MixResponses, modelKey \in DOMAIN modelCosts \cup {NoKey} :
          ChatSend(r, resp, modelKey)
    \/ \E r \in Serving : ChatStore(r) \/ ChatStoreCost(r) \/ ChatRespond(r)
    \/ Accepting(RaceTurns) /\ Reset

SpecRace == InitLoop /\ [][NextRace]_vars

\* the /chat turns stored before the reset logged at k
StoredBefore(k) ==
    {i \in 1..Len(turns) :
        turns[i].kind = "chat" /\ turns[i].stored /\ turns[i].storeSeq <= turns[k].storeSeq}

\* C38: after a reset, no stored history holds a turn that was stored
\* before that reset, even when a turn that had read its history before the
\* reset finishes after it.
C38_ResetIsFinal ==
    \A k \in 1..Len(turns) :
        turns[k].kind = "reset" =>
            \A i \in StoredBefore(k), sid \in DOMAIN sessions :
                \A j \in 1..Len(sessions[sid]) : sessions[sid][j] # UserTurn(turns[i].Message)

\* the running total right after the store numbered seq added its cost:
\* the costs of the first n requests stored no later than it
RECURSIVE TotalAfter(_, _)
TotalAfter(seq, n) ==
    IF n = 0 THEN 0
    ELSE TotalAfter(seq, n - 1) +
         (IF turns[n].stored /\ turns[n].storeSeq <= seq THEN turns[n].cost ELSE 0)

\* C39: the running total a /chat response reports is the total as it stood
\* right after the request's own cost was added, however the request
\* interleaves with other /chat requests.
C39_ReportedTotalIsOwnTotal ==
    \A r \in Req :
        (h[r].kind = "chat" /\ h[r].pc = "done" /\ h[r].out.status = "200") =>
            h[r].out.TotalCost = TotalAfter(turns[obs[r].turn].storeSeq, Len(turns))

(***************************************************************************)
(* The two mutexes: mu guards sessions and totalCost, logMu guards the log *)
(* file.  Each handler path is written down as the mutex operations it     *)
(* makes, in program order, and the operations of concurrent requests are  *)
(* interleaved one at a time.                                              *)
(***************************************************************************)
LockTurns == 2

Lock(m) == [op |-> "Lock", m |-> m]
Unlock(m) == [op |-> "Unlock", m |-> m]

logMsg_neverUnlocks == <<Lock("logMu")>>

\* logMsg locks logMu, writes the line and unlocks by defer on return
logMsg == <<Lock("logMu"), Unlock("logMu")>>

\* toolWriteFile logs once, after a successful write, and takes no lock itself
RECURSIVE toolWriteFileLocks(_)
toolWriteFileLocks(writes) ==
    IF writes = 0 THEN <<>> ELSE logMsg \o toolWriteFileLocks(writes - 1)

\* /chat: the request line is logged, the history is read under mu, the
\* tools run with no lock held, and unless an upstream error returned early
\* the turn and its cost are stored under mu and the response line is logged
handleChatLocks(writes, stored) ==
    logMsg \o <<Lock("mu"), Unlock("mu")>> \o toolWriteFileLocks(writes)
        \o (IF stored THEN <<Lock("mu"), Unlock("mu")>> \o logMsg ELSE <<>>)

\* /v1/chat/completions, buffered: the same order on the session "openai-compat"
handleOpenAIChatLocks(writes, stored) ==
    logMsg \o <<Lock("mu"), Unlock("mu")>> \o toolWriteFileLocks(writes)
        \o (IF stored THEN <<Lock("mu"), Unlock("mu")>> \o logMsg ELSE <<>>)

\* /v1/chat/completions, streamed: the same order on the session "openai-stream"
handleOpenAIStreamLocks(writes, stored) ==
    logMsg \o <<Lock("mu"), Unlock("mu")>> \o toolWriteFileLocks(writes)
        \o (IF stored THEN <<Lock("mu"), Unlock("mu")>> \o logMsg ELSE <<>>)

\* the streaming pass-through logs the request and, unless the upstream
\* call failed, the completion; it never touches mu
handleStreamLocks(completed) == logMsg \o (IF completed THEN logMsg ELSE <<>>)

\* /reset empties the store under mu and does not log
handleResetLocks == <<Lock("mu"), Unlock("mu")>>

\* every path a request can take; <<>> is a request that returns before its
\* first log line (a rejected request, /status)
LockPaths ==
    {handleChatLocks(n, s) : n \in 0..MaxCalls, s \in BOOLEAN}
        \cup {handleOpenAIChatLocks(n, s) : n \in 0..MaxCalls, s \in BOOLEAN}
        \cup {handleOpenAIStreamLocks(n, s) : n \in 0..MaxCalls, s \in BOOLEAN}
        \cup {handleStreamLocks(c) : c \in BOOLEAN}
        \cup {handleResetLocks, <<>>}

\* the slot holding mutex m, 0 when it is free
Held(m) == IF m = "mu" THEN mu ELSE logMu

\* a request arrives and its handler starts on one of the paths
LockBegin(r, ops) ==
    /\ Accepting(LockTurns)
    /\ lockOps[r] = <<>>
    /\ lockOps' = [lockOps EXCEPT ![r] = ops]
    /\ turns' = Append(turns, NewTurn("locks", NoReq))
    /\ UNCHANGED <<sessions, totalCost, cacheName, cacheModel, toolRuns, h, obs, mu, logMu>>

\* sync.Mutex.Lock: blocks until the mutex is free, then takes it
DoLock(r) ==
    /\ lockOps[r] # <<>> /\ Head(lockOps[r]).op = "Lock"
    /\ Held(Head(lockOps[r]).m) = 0
    /\ IF Head(lockOps[r]).m = "mu"
       THEN mu' = r /\ UNCHANGED logMu
       ELSE logMu' = r /\ UNCHANGED mu
    /\ lockOps' = [lockOps EXCEPT ![r] = Tail(@)]
    /\ UNCHANGED <<sessions, totalCost, cacheName, cacheModel, toolRuns, h, obs, turns>>

\* sync.Mutex.Unlock: frees the mutex
DoUnlock(r) ==
    /\ lockOps[r] # <<>> /\ Head(lockOps[r]).op = "Unlock"
    /\ IF Head(lockOps[r]).m = "mu"
       THEN mu' = 0 /\ UNCHANGED logMu
       ELSE logMu' = 0 /\ UNCHANGED mu
    /\ lockOps' = [lockOps EXCEPT ![r] = Tail(@)]
    /\ UNCHANGED <<sessions, totalCost, cacheName, cacheModel, toolRuns, h, obs, turns>>

NextLocks ==
    \/ \E r \in Req, ops \in LockPaths : LockBegin(r, ops)
    \/ \E r \in Req : DoLock(r)
    \/ \E r \in Req : DoUnlock(r)

SpecLocks == InitLoop /\ [][NextLocks]_vars

\* a handler that can make its next mutex operation eventually makes it
SpecLocksFair ==
    SpecLocks /\ \A r \in Req : WF_vars(DoLock(r)) /\ WF_vars(DoUnlock(r))

\* request r is blocked in, or about to call, m.Lock()
WaitsFor(r, m) == lockOps[r] # <<>> /\ Head(lockOps[r]) = Lock(m)

\* no handler holds both mutexes, asks for one while holding the other, or
\* returns holding one
LocksNotNested ==
    \A r \in Req :
        /\ ~(mu = r /\ logMu = r)
        /\ (\E m \in {"mu", "logMu"} : WaitsFor(r, m)) => (mu # r /\ logMu # r)
        /\ lockOps[r] = <<>> => (mu # r /\ logMu # r)

\* C40: the session/cost lock and the log lock are never nested, every
\* acquisition is released on every path, and under any interleaving of
\* requests every lock request is eventually granted.
C40_LocksNeverNestedAlwaysGranted ==
    /\ []LocksNotNested
    /\ \A r \in Req : \A m \in {"mu", "logMu"} : WaitsFor(r, m) ~> (Held(m) = r)

\* one request is inside the store section while the other, having logged a
\* tool write, asks for the same lock
C40_Witness ==
    \E r \in Req, q \in Req :
        /\ r # q
        /\ mu = r /\ WaitsFor(q, "mu")
        /\ lockOps[q] = <<Lock("mu"), Unlock("mu")>> \o logMsg

====
